---------------------------- MODULE Spec2Model ----------------------------
(***************************************************************************)
(* The object header word (markWord), the stack lock record (BasicLock)    *)
(* and the biased-locking protocol (BiasedLocking) of HotSpot.             *)
(*                                                                         *)
(* A header word is a natural number holding the bits of the 64-bit        *)
(* uintptr_t (LP64 layout).  Every word of the locking model has its       *)
(* upper bits clear, so no operation on it leaves the range of the model   *)
(* checker's integers and none needs a reduction modulo 2^64.  Where the   *)
(* upper bits matter a word is the set of the positions of its bits        *)
(* (the wide_ operators).                                                  *)
(***************************************************************************)
EXTENDS Naturals, Integers, Sequences, FiniteSets

(***************************************************************************)
(* Bounds of the model.                                                    *)
(***************************************************************************)
\* lock records one thread may hold on the object at a time
MaxDepth == 2
\* bulk rebias operations (epoch increments) in one behaviour
MaxBulkRebias == 1

(***************************************************************************)
(* Bitwise operators of C++ on unsigned words.                             *)
(***************************************************************************)
RECURSIVE BitAnd(_, _)
BitAnd(a, b) ==
    IF a = 0 \/ b = 0 THEN 0
    ELSE (IF a % 2 = 1 /\ b % 2 = 1 THEN 1 ELSE 0)
         + 2 * BitAnd(a \div 2, b \div 2)

BitOr(a, b) == a + b - BitAnd(a, b)

BitXor(a, b) == a + b - 2 * BitAnd(a, b)

\* x & ~m
BitAndNot(x, m) == x - BitAnd(x, m)

\* x << n  and  x >> n
ShiftLeft(x, n) == x * (2 ^ n)

ShiftRight(x, n) == x \div (2 ^ n)

right_n_bits(n) == IF n = 0 THEN 0 ELSE 2 * ((2 ^ (n - 1)) - 1) + 1

mask_bits(x, m) == BitAnd(x, m)

(***************************************************************************)
(* markWord: constants.                                                    *)
(***************************************************************************)
BitsPerWord == 64

age_bits == 4

lock_bits == 2

biased_lock_bits == 1

max_hash_bits == BitsPerWord - age_bits - lock_bits - biased_lock_bits

hash_bits == IF max_hash_bits > 31 THEN 31 ELSE max_hash_bits

unused_gap_bits == 1

epoch_bits == 2

lock_shift == 0

biased_lock_shift == lock_bits

age_shift == lock_bits + biased_lock_bits

unused_gap_shift == age_shift + age_bits

hash_shift == unused_gap_shift + unused_gap_bits

epoch_shift == hash_shift

lock_mask == right_n_bits(lock_bits)

lock_mask_in_place == ShiftLeft(lock_mask, lock_shift)

biased_lock_mask == right_n_bits(lock_bits + biased_lock_bits)

biased_lock_mask_in_place == ShiftLeft(biased_lock_mask, lock_shift)

biased_lock_bit_in_place == ShiftLeft(1, biased_lock_shift)

age_mask == right_n_bits(age_bits)

age_mask_in_place == ShiftLeft(age_mask, age_shift)

epoch_mask == right_n_bits(epoch_bits)

epoch_mask_in_place == ShiftLeft(epoch_mask, epoch_shift)

hash_mask == right_n_bits(hash_bits)

\* a biased_lock_alignment of half the size
biased_lock_alignment_Half == ShiftLeft(1, epoch_shift + epoch_bits)

biased_lock_alignment == ShiftLeft(2, epoch_shift + epoch_bits)

locked_value == 0

unlocked_value == 1

monitor_value == 2

marked_value == 3

biased_lock_pattern == 5

no_hash == 0

no_hash_in_place == ShiftLeft(no_hash, hash_shift)

no_lock_in_place == unlocked_value

max_age == age_mask

max_bias_epoch == epoch_mask

(***************************************************************************)
(* markWord: operations.  A markWord is its value().                       *)
(***************************************************************************)
zero == 0

\* a has_bias_pattern() that looks at the two lock bits only
has_bias_pattern_LockBitsOnly(v) ==
    mask_bits(v, lock_mask_in_place) = unlocked_value

has_bias_pattern(v) ==
    mask_bits(v, biased_lock_mask_in_place) = biased_lock_pattern

\* a biased_locker() whose mask forgets the age bits
biased_locker_KeepsAge(v) ==
    BitAndNot(v, BitOr(biased_lock_mask_in_place, epoch_mask_in_place))

\* the JavaThread* of the bias; the caller has checked has_bias_pattern
biased_locker(v) ==
    BitAndNot(v, BitOr(biased_lock_mask_in_place,
                       BitOr(age_mask_in_place, epoch_mask_in_place)))

is_biased_anonymously(v) == has_bias_pattern(v) /\ biased_locker(v) = 0

\* a bias_epoch() that reads no bit
bias_epoch_Zero(v) == ShiftRight(mask_bits(v, 0), epoch_shift)

\* a bias_epoch() that shifts one bit too far
bias_epoch_ShiftedOne(v) ==
    ShiftRight(mask_bits(v, epoch_mask_in_place), epoch_shift + 1)

bias_epoch(v) == ShiftRight(mask_bits(v, epoch_mask_in_place), epoch_shift)

set_bias_epoch(v, epoch) ==
    BitOr(BitAndNot(v, epoch_mask_in_place), ShiftLeft(epoch, epoch_shift))

\* an incr_bias_epoch() that does not increment
incr_bias_epoch_Same(v) ==
    set_bias_epoch(v, BitAnd(bias_epoch(v), epoch_mask))

\* an incr_bias_epoch() that adds two
incr_bias_epoch_ByTwo(v) ==
    set_bias_epoch(v, BitAnd(2 + bias_epoch(v), epoch_mask))

incr_bias_epoch(v) == set_bias_epoch(v, BitAnd(1 + bias_epoch(v), epoch_mask))

biased_locking_prototype == biased_lock_pattern

\* an is_locked() that tests the bias bit with the lock bits
is_locked_BiasMask(v) ==
    mask_bits(v, biased_lock_mask_in_place) # unlocked_value

is_locked(v) == mask_bits(v, lock_mask_in_place) # unlocked_value

is_unlocked(v) == mask_bits(v, biased_lock_mask_in_place) = unlocked_value

is_marked(v) == mask_bits(v, lock_mask_in_place) = marked_value

\* is_neutral testing for the locked value instead of the unlocked value
is_neutral_Locked(v) == mask_bits(v, biased_lock_mask_in_place) = locked_value

\* is_neutral testing the low lock bit alone
is_neutral_LowBit(v) == BitAnd(v, unlocked_value) # 0

is_neutral(v) == mask_bits(v, biased_lock_mask_in_place) = unlocked_value

\* is_being_inflated testing for the marked value instead of zero
is_being_inflated_Marked(v) == v = marked_value

is_being_inflated(v) == v = 0

INFLATING == zero

has_locker(v) == BitAnd(v, lock_mask_in_place) = locked_value

locker(v) == v

\* a has_monitor() that compares both lock bits with the monitor value
has_monitor_Exact(v) == BitAnd(v, lock_mask_in_place) = monitor_value

has_monitor(v) == BitAnd(v, monitor_value) # 0

monitor(v) == BitXor(v, monitor_value)

unused_mark == marked_value

encode_lock(lock) == lock

\* encode of a monitor without its tag
encode_monitor_NoTag(monitor_ptr) == monitor_ptr

encode_monitor(mon) == BitOr(mon, monitor_value)

\* an encode() that leaves the thread pointer out
encode_NoThread(thread, a, epoch) ==
    BitOr(ShiftLeft(epoch, epoch_shift),
          BitOr(ShiftLeft(a, age_shift), biased_lock_pattern))

\* an encode() that leaves the age out
encode_NoAge(thread, a, epoch) ==
    BitOr(BitOr(thread, ShiftLeft(epoch, epoch_shift)), biased_lock_pattern)

encode(thread, a, epoch) ==
    BitOr(BitOr(thread, ShiftLeft(epoch, epoch_shift)),
          BitOr(ShiftLeft(a, age_shift), biased_lock_pattern))

\* an age() that shifts one bit too far
age_ShiftedOne(v) == mask_bits(ShiftRight(v, age_shift + 1), age_mask)

age(v) == mask_bits(ShiftRight(v, age_shift), age_mask)

\* a set_age() that shifts one bit too far
set_age_ShiftedOne(v, a) ==
    BitOr(BitAndNot(v, age_mask_in_place),
          ShiftLeft(BitAnd(a, age_mask), age_shift + 1))

set_age(v, a) ==
    BitOr(BitAndNot(v, age_mask_in_place), ShiftLeft(BitAnd(a, age_mask), age_shift))

\* an incr_age() without the test for max_age
incr_age_Wraps(v) == set_age(v, age(v) + 1)

incr_age(v) == IF age(v) = max_age THEN v ELSE set_age(v, age(v) + 1)

hash(v) == mask_bits(ShiftRight(v, hash_shift), hash_mask)

has_no_hash(v) == hash(v) = no_hash

\* value() & ~hash_mask_in_place.  The mask hash_mask << hash_shift has the
\* bits 8 .. 38 and is wider than the integers of the model checker, so
\* it is applied in two parts: the bits below hash_shift are kept, and
\* hash_mask is cleared from the bits above, shifted down and up again.
without_hash(v) ==
    mask_bits(v, right_n_bits(hash_shift))
        + ShiftLeft(BitAndNot(ShiftRight(v, hash_shift), hash_mask),
                    hash_shift)

\* a copy_set_hash() that shifts the hash by the wrong constant
copy_set_hash_WrongShift(v, h) ==
    BitOr(without_hash(v),
          ShiftLeft(BitAnd(h, hash_mask), biased_lock_shift))

copy_set_hash(v, h) ==
    BitOr(without_hash(v),
          ShiftLeft(BitAnd(h, hash_mask), hash_shift))

\* a prototype() that keeps the bias bit
prototype_BiasBit == BitOr(no_hash_in_place, biased_lock_pattern)

prototype == BitOr(no_hash_in_place, no_lock_in_place)

(***************************************************************************)
(* The machine: two JavaThreads and one object of one klass.               *)
(***************************************************************************)
Threads == {1, 2}

\* JavaThread*: aligned to biased_lock_alignment
JavaThreadPtr(t) == t * biased_lock_alignment

\* BasicLock*: the i-th lock record of thread t, in t's stack
LockAddr(t, i) == 64 * t + 8 * i

\* Thread::is_lock_owned: the address lies in t's stack
is_lock_owned(t, addr) == addr \div 64 = t

\* ObjectMonitor*
ObjectMonitorAddr == 8 * 64

\* contents a lock record may hold before anything was stored into it
StaleStackWords == {0, unused_mark}

\* ages an object may have when the behaviour starts
InitAges == {0, 3}

\* BiasedLocking::Condition; 0 before any revocation of the thread returned
NO_CONDITION == 0

NOT_BIASED == 1

BIAS_REVOKED == 2

NOT_REVOKED == 3

VARIABLES
    mark,     \* the object's header word
    proto,    \* the klass's prototype header: bias pattern and epoch
    pc,       \* pc[t]: where thread t is
    goal,     \* goal[t]: the operation thread t is in
    lmark,    \* lmark[t]: the header thread t read and still uses (the
              \*   comparand of its compare-and-swap), else 0
    stack,    \* stack[t]: displaced headers of t's lock records on the
              \*   object, oldest first
    mon,      \* the ObjectMonitor: owner, recursions, header
    status,   \* status[t]: the Condition the revocation of thread t has
              \*   just returned, until t's next step
    nbulk,    \* bulk rebias operations so far
    dest,     \* dest[t]: the BasicLock that thread t relocates a lock record
              \*   to (BasicLock::move_to): the record moved, the displaced
              \*   header of the destination
    calc      \* the last application of a markWord function to arguments:
              \*   its name, its arguments, its results

\* what the lock and revocation operations never touch
aux == <<dest, calc>>

vars == <<mark, proto, pc, goal, lmark, stack, mon, status, nbulk, aux>>

\* no relocation under way
NoDest == [src |-> 0, dhw |-> 0]

\* no function applied
NoCalc == [op |-> "none", arg |-> << >>, res |-> << >>]

Init ==
    /\ \E a \in InitAges : mark = set_age(biased_locking_prototype, a)
    /\ proto = biased_locking_prototype
    /\ pc = [t \in Threads |-> "idle"]
    /\ goal = [t \in Threads |-> "none"]
    /\ lmark = [t \in Threads |-> 0]
    /\ stack = [t \in Threads |-> << >>]
    /\ mon = [owner |-> 0, rec |-> 0, header |-> 0]
    /\ status = [t \in Threads |-> NO_CONDITION]
    /\ nbulk = 0
    /\ dest = [t \in Threads |-> NoDest]
    /\ calc = NoCalc

Depth(t) == Len(stack[t])

Pop(s) == SubSeq(s, 1, Len(s) - 1)

\* every place taken for a safe place
Safe_Always(t) == pc[t] = pc[t]

\* a thread at a safepoint-safe place: in Java code between two lock
\* operations, or blocked
Safe(t) == pc[t] \in {"idle", "hs_wait", "mon_enter"}

\* the thread a JavaThread* names
ThreadOf(ptr) == ptr \div biased_lock_alignment

has_displaced_mark_helper(v) == BitAnd(v, unlocked_value) = 0

\* markWord::displaced_mark_helper: the word the header points at
displaced_mark_helper(v) ==
    LET ptr == BitAndNot(v, monitor_value)
    IN  IF ptr = ObjectMonitorAddr THEN mon.header
        ELSE stack[ptr \div 64][(ptr % 64) \div 8]

\* the unbiased header revocation installs
unbiased_prototype(m) == set_age(prototype, age(m))

\* where a thread continues once the bias is gone
AfterRevoke(t) ==
    IF goal[t] = "lock" THEN "enter"
    ELSE IF goal[t] = "hash" THEN "hash_read"
    ELSE "idle"

(***************************************************************************)
(* Lock: the biased fast path.                                             *)
(***************************************************************************)
\* ObjectSynchronizer::enter once the header is not biased
EnterBody(t) ==
    LET m == mark IN
    IF has_bias_pattern(m) THEN
        /\ pc' = [pc EXCEPT ![t] = "revoke"]
        /\ UNCHANGED <<mark, lmark, stack, mon>>
    ELSE IF is_neutral(m) THEN
        /\ pc' = [pc EXCEPT ![t] = "thin_cas"]
        /\ lmark' = [lmark EXCEPT ![t] = m]
        /\ UNCHANGED <<mark, stack, mon>>
    ELSE IF has_locker(m) /\ is_lock_owned(t, locker(m)) THEN
        /\ stack' = [stack EXCEPT ![t] = Append(@, 0)]
        /\ pc' = [pc EXCEPT ![t] = "idle"]
        /\ UNCHANGED <<mark, lmark, mon>>
    ELSE
        /\ pc' = [pc EXCEPT ![t] = "inflate"]
        /\ UNCHANGED <<mark, lmark, stack, mon>>

\* biased_locking_enter: what the fast path finds in header m of an object
\* whose klass has prototype header p
FastPath(t, m, p) ==
    IF ~has_bias_pattern(m) THEN "enter"
    ELSE IF ~has_bias_pattern(p) THEN "revoke"
    ELSE IF biased_locker(m) = JavaThreadPtr(t)
            /\ bias_epoch(m) = bias_epoch(p) THEN "biased"
    ELSE IF bias_epoch(m) # bias_epoch(p) THEN "cas_rebias"
    ELSE IF biased_locker(m) = 0 THEN "cas_bias"
    ELSE "revoke"

\* biased_locking_enter: read the header and act on what the fast path finds
LockRead(t) ==
    /\ pc[t] = "idle"
    /\ Depth(t) < MaxDepth
    /\ LET m == mark
           c == FastPath(t, m, proto)
       IN
       IF c = "enter" THEN
           /\ EnterBody(t)
           /\ goal' = [goal EXCEPT ![t] =
                          IF pc'[t] = "idle" THEN "none" ELSE "lock"]
       ELSE IF c = "biased" THEN
           /\ \E g \in StaleStackWords :
                  stack' = [stack EXCEPT ![t] = Append(@, g)]
           /\ UNCHANGED <<mark, pc, goal, lmark, mon>>
       ELSE IF c = "revoke" THEN
           /\ pc' = [pc EXCEPT ![t] = "revoke"]
           /\ goal' = [goal EXCEPT ![t] = "lock"]
           /\ UNCHANGED <<mark, lmark, stack, mon>>
       ELSE
           /\ pc' = [pc EXCEPT ![t] = c]
           /\ goal' = [goal EXCEPT ![t] = "lock"]
           /\ lmark' = [lmark EXCEPT ![t] = m]
           /\ UNCHANGED <<mark, stack, mon>>
    /\ status' = [status EXCEPT ![t] = NO_CONDITION]
    /\ UNCHANGED <<proto, nbulk, aux>>

\* the compare-and-swap that biases the object to t under the klass's epoch
BiasCasBody(t) ==
    IF mark = lmark[t] THEN
        /\ mark' = encode(JavaThreadPtr(t), age(lmark[t]), bias_epoch(proto))
        /\ \E g \in StaleStackWords :
               stack' = [stack EXCEPT ![t] = Append(@, g)]
        /\ pc' = [pc EXCEPT ![t] = "idle"]
        /\ goal' = [goal EXCEPT ![t] = "none"]
    ELSE
        /\ pc' = [pc EXCEPT ![t] = "revoke"]
        /\ UNCHANGED <<mark, stack, goal>>

\* anonymously biased header: one compare-and-swap
CasBias(t) ==
    /\ pc[t] = "cas_bias"
    /\ BiasCasBody(t)
    /\ lmark' = [lmark EXCEPT ![t] = 0]
    /\ UNCHANGED <<proto, mon, status, nbulk, aux>>

\* header biased under an expired epoch: one compare-and-swap
CasRebias(t) ==
    /\ pc[t] = "cas_rebias"
    /\ BiasCasBody(t)
    /\ lmark' = [lmark EXCEPT ![t] = 0]
    /\ UNCHANGED <<proto, mon, status, nbulk, aux>>

(***************************************************************************)
(* Lock: lightweight locking, inflation, the monitor.                      *)
(***************************************************************************)
\* ObjectSynchronizer::enter: the slow path, after the bias was revoked
Enter(t) ==
    /\ pc[t] = "enter"
    /\ EnterBody(t)
    /\ goal' = [goal EXCEPT ![t] = IF pc'[t] = "idle" THEN "none" ELSE @]
    /\ status' = [status EXCEPT ![t] = NO_CONDITION]
    /\ UNCHANGED <<proto, nbulk, aux>>

\* the compare-and-swap of the lock record's address into a neutral header
ThinCas(t) ==
    /\ pc[t] = "thin_cas"
    /\ IF mark = lmark[t] THEN
           /\ mark' = encode_lock(LockAddr(t, Depth(t) + 1))
           /\ stack' = [stack EXCEPT ![t] = Append(@, lmark[t])]
           /\ pc' = [pc EXCEPT ![t] = "idle"]
           /\ goal' = [goal EXCEPT ![t] = "none"]
       ELSE
           /\ pc' = [pc EXCEPT ![t] = "inflate"]
           /\ UNCHANGED <<mark, stack, goal>>
    /\ lmark' = [lmark EXCEPT ![t] = 0]
    /\ UNCHANGED <<proto, mon, status, nbulk, aux>>

\* where a thread continues once the header references the monitor
AfterInflate(t) ==
    IF goal[t] = "unlock" THEN "mon_exit"
    ELSE IF goal[t] = "hash" THEN "hash_mon"
    ELSE IF goal[t] = "move" THEN "move_copy"
    ELSE "mon_enter"

\* ObjectSynchronizer::inflate: one round of its loop; on the busy value
\* INFLATING the thread waits
Inflate(t) ==
    /\ pc[t] = "inflate"
    /\ LET m == mark IN
       IF has_monitor(m) THEN
           /\ pc' = [pc EXCEPT ![t] = AfterInflate(t)]
           /\ UNCHANGED <<mark, lmark, mon>>
       ELSE
           /\ ~is_being_inflated(m)
           /\ IF has_locker(m) THEN
                  /\ mark' = INFLATING
                  /\ lmark' = [lmark EXCEPT ![t] = m]
                  /\ pc' = [pc EXCEPT ![t] = "inflating"]
                  /\ UNCHANGED mon
              ELSE
                  /\ mon' = [owner |-> 0, rec |-> 0, header |-> m]
                  /\ mark' = encode_monitor(ObjectMonitorAddr)
                  /\ pc' = [pc EXCEPT ![t] = AfterInflate(t)]
                  /\ UNCHANGED lmark
    /\ UNCHANGED <<proto, goal, stack, status, nbulk, aux>>

\* inflate, stack-locked case, after INFLATING was installed: fill the
\* monitor and publish it
InflateFinish(t) ==
    /\ pc[t] = "inflating"
    /\ mon' = [owner |-> locker(lmark[t]), rec |-> 0,
               header |-> displaced_mark_helper(lmark[t])]
    /\ mark' = encode_monitor(ObjectMonitorAddr)
    /\ pc' = [pc EXCEPT ![t] = AfterInflate(t)]
    /\ lmark' = [lmark EXCEPT ![t] = 0]
    /\ UNCHANGED <<proto, goal, stack, status, nbulk, aux>>

\* ObjectMonitor::enter; a thread that finds the monitor owned stays blocked
MonEnter(t) ==
    /\ pc[t] = "mon_enter"
    /\ \/ /\ mon.owner = 0
          /\ mon' = [mon EXCEPT !.owner = JavaThreadPtr(t)]
       \/ /\ mon.owner = JavaThreadPtr(t)
          /\ mon' = [mon EXCEPT !.rec = @ + 1]
       \/ /\ mon.owner # 0
          /\ mon.owner < biased_lock_alignment
          /\ is_lock_owned(t, mon.owner)
          /\ mon' = [mon EXCEPT !.owner = JavaThreadPtr(t), !.rec = 1]
    /\ stack' = [stack EXCEPT ![t] = Append(@, unused_mark)]
    /\ pc' = [pc EXCEPT ![t] = "idle"]
    /\ goal' = [goal EXCEPT ![t] = "none"]
    /\ UNCHANGED <<mark, proto, lmark, status, nbulk, aux>>

(***************************************************************************)
(* Unlock.                                                                 *)
(***************************************************************************)
\* biased_locking_exit, then ObjectSynchronizer::exit on the innermost record
Unlock(t) ==
    /\ pc[t] = "idle"
    /\ Depth(t) > 0
    /\ LET dhw == stack[t][Depth(t)] IN
       IF has_bias_pattern(mark) \/ dhw = 0 THEN
           /\ stack' = [stack EXCEPT ![t] = Pop(@)]
           /\ UNCHANGED <<mark, pc, goal>>
       ELSE IF mark = encode_lock(LockAddr(t, Depth(t))) THEN
           /\ mark' = dhw
           /\ stack' = [stack EXCEPT ![t] = Pop(@)]
           /\ UNCHANGED <<pc, goal>>
       ELSE
           /\ pc' = [pc EXCEPT ![t] = "inflate"]
           /\ goal' = [goal EXCEPT ![t] = "unlock"]
           /\ UNCHANGED <<mark, stack>>
    /\ status' = [status EXCEPT ![t] = NO_CONDITION]
    /\ UNCHANGED <<proto, lmark, mon, nbulk, aux>>

\* ObjectMonitor::exit; by a thread that is not the owner it changes nothing
MonExit(t) ==
    /\ pc[t] = "mon_exit"
    /\ IF mon.owner = JavaThreadPtr(t) THEN
           IF mon.rec > 0
           THEN mon' = [mon EXCEPT !.rec = @ - 1]
           ELSE mon' = [mon EXCEPT !.owner = 0]
       ELSE IF mon.owner # 0 /\ mon.owner < biased_lock_alignment
               /\ is_lock_owned(t, mon.owner) THEN
           mon' = [mon EXCEPT !.owner = 0, !.rec = 0]
       ELSE
           UNCHANGED mon
    /\ stack' = [stack EXCEPT ![t] = Pop(@)]
    /\ pc' = [pc EXCEPT ![t] = "idle"]
    /\ goal' = [goal EXCEPT ![t] = "none"]
    /\ UNCHANGED <<mark, proto, lmark, status, nbulk, aux>>

(***************************************************************************)
(* Revocation of the bias of the object.                                   *)
(***************************************************************************)
\* BiasedLocking::walk_stack_and_revoke: the lock records of biaser b after
\* the walk; the oldest record is the highest lock
WalkedStack(b, m) ==
    [i \in 1 .. Depth(b) |-> IF i = 1 THEN unbiased_prototype(m) ELSE 0]

\* BiasedLocking::walk_stack_and_revoke: the header after the walk
WalkedMark(b, m) ==
    IF Depth(b) > 0 THEN encode_lock(LockAddr(b, 1)) ELSE unbiased_prototype(m)

\* BiasedLocking::revoke called for its own sake (not by a lock operation)
RevokeStart(t) ==
    /\ pc[t] = "idle"
    /\ pc' = [pc EXCEPT ![t] = "revoke"]
    /\ goal' = [goal EXCEPT ![t] = "revoke"]
    /\ status' = [status EXCEPT ![t] = NO_CONDITION]
    /\ UNCHANGED <<mark, proto, lmark, stack, mon, nbulk, aux>>

\* BiasedLocking::revoke: one round of its loop up to the compare-and-swap,
\* the handshake request, or the revocation of the thread's own bias
RevokeRead(t) ==
    /\ pc[t] = "revoke"
    /\ LET m == mark IN
       IF ~has_bias_pattern(m) THEN
           /\ status' = [status EXCEPT ![t] = NOT_BIASED]
           /\ pc' = [pc EXCEPT ![t] = AfterRevoke(t)]
           /\ goal' = [goal EXCEPT ![t] = IF pc'[t] = "idle" THEN "none" ELSE @]
           /\ UNCHANGED <<mark, lmark, stack>>
       ELSE IF \/ is_biased_anonymously(m)
               \/ ~has_bias_pattern(proto)
               \/ bias_epoch(proto) # bias_epoch(m) THEN
           /\ lmark' = [lmark EXCEPT ![t] = m]
           /\ pc' = [pc EXCEPT ![t] = "revoke_cas"]
           /\ UNCHANGED <<mark, stack, goal, status>>
       ELSE IF biased_locker(m) = JavaThreadPtr(t) THEN
           /\ mark' = WalkedMark(t, m)
           /\ stack' = [stack EXCEPT ![t] = WalkedStack(t, m)]
           /\ status' = [status EXCEPT ![t] = BIAS_REVOKED]
           /\ pc' = [pc EXCEPT ![t] = AfterRevoke(t)]
           /\ goal' = [goal EXCEPT ![t] = IF pc'[t] = "idle" THEN "none" ELSE @]
           /\ UNCHANGED lmark
       ELSE
           /\ lmark' = [lmark EXCEPT ![t] = m]
           /\ pc' = [pc EXCEPT ![t] = "hs_wait"]
           /\ UNCHANGED <<mark, stack, goal, status>>
    /\ UNCHANGED <<proto, mon, nbulk, aux>>

\* the compare-and-swap of the unbiased header over the header read
RevokeCas(t) ==
    /\ pc[t] = "revoke_cas"
    /\ IF mark = lmark[t] THEN
           /\ mark' = unbiased_prototype(lmark[t])
           /\ status' = [status EXCEPT ![t] = BIAS_REVOKED]
           /\ pc' = [pc EXCEPT ![t] = AfterRevoke(t)]
           /\ goal' = [goal EXCEPT ![t] = IF pc'[t] = "idle" THEN "none" ELSE @]
       ELSE
           /\ status' = [status EXCEPT ![t] = NOT_REVOKED]
           /\ pc' = [pc EXCEPT ![t] = "revoke"]
           /\ UNCHANGED <<mark, goal>>
    /\ lmark' = [lmark EXCEPT ![t] = 0]
    /\ UNCHANGED <<proto, stack, mon, nbulk, aux>>

\* RevokeOneBias::do_thread: the Condition the handshake with biaser b ends in
HandshakeCondition(b, m) ==
    IF ~has_bias_pattern(m) THEN NOT_BIASED
    ELSE IF ~has_bias_pattern(proto) THEN BIAS_REVOKED
    ELSE IF /\ biased_locker(m) = JavaThreadPtr(b)
            /\ bias_epoch(m) = bias_epoch(proto) THEN BIAS_REVOKED
    ELSE NOT_REVOKED

\* BiasedLocking::single_revoke_with_handshake: requester t is blocked; the
\* closure runs once biaser b is at a safe place
Handshake(t) ==
    /\ pc[t] = "hs_wait"
    /\ LET b == ThreadOf(biased_locker(lmark[t]))
           m == mark
           c == HandshakeCondition(b, m)
       IN
       /\ b \in Threads
       /\ Safe(b)
       /\ status' = [status EXCEPT ![t] = c]
       /\ IF c = BIAS_REVOKED THEN
              IF has_bias_pattern(proto)
              THEN /\ mark' = WalkedMark(b, m)
                   /\ stack' = [stack EXCEPT ![b] = WalkedStack(b, m)]
              ELSE /\ mark' = unbiased_prototype(m)
                   /\ UNCHANGED stack
          ELSE UNCHANGED <<mark, stack>>
       /\ pc' = [pc EXCEPT ![t] =
                    IF c = NOT_REVOKED THEN "revoke" ELSE AfterRevoke(t)]
       /\ goal' = [goal EXCEPT ![t] = IF pc'[t] = "idle" THEN "none" ELSE @]
    /\ lmark' = [lmark EXCEPT ![t] = 0]
    /\ UNCHANGED <<proto, mon, nbulk, aux>>

(***************************************************************************)
(* Bulk rebias: at a safepoint the klass's epoch is incremented.           *)
(***************************************************************************)
BulkRebias ==
    /\ nbulk < MaxBulkRebias
    /\ \A t \in Threads : Safe(t)
    /\ has_bias_pattern(proto)
    /\ proto' = incr_bias_epoch(proto)
    /\ nbulk' = nbulk + 1
    /\ UNCHANGED <<mark, pc, goal, lmark, stack, mon, status, aux>>

(***************************************************************************)
(* The specifications.                                                     *)
(***************************************************************************)
ThreadStep(t) ==
    \/ LockRead(t)
    \/ CasBias(t)
    \/ CasRebias(t)
    \/ Enter(t)
    \/ ThinCas(t)
    \/ Inflate(t)
    \/ InflateFinish(t)
    \/ MonEnter(t)
    \/ Unlock(t)
    \/ MonExit(t)
    \/ RevokeStart(t)
    \/ RevokeRead(t)
    \/ RevokeCas(t)
    \/ Handshake(t)

Next ==
    \/ \E t \in Threads : ThreadStep(t)
    \/ BulkRebias

Spec == Init /\ [][Next]_vars

\* no CasRebias: it fires only after an epoch increment
StableStep(t) ==
    \/ LockRead(t)
    \/ CasBias(t)
    \/ Enter(t)
    \/ ThinCas(t)
    \/ Inflate(t)
    \/ InflateFinish(t)
    \/ MonEnter(t)
    \/ Unlock(t)
    \/ MonExit(t)
    \/ RevokeStart(t)
    \/ RevokeRead(t)
    \/ RevokeCas(t)
    \/ Handshake(t)

\* the klass's epoch and bias pattern stay as they are
NextStable == \E t \in Threads : StableStep(t)

SpecStable == Init /\ [][NextStable]_vars

(***************************************************************************)
(* The layout of a header word, written out bit by bit: what the           *)
(* properties below compare the program's words with.                      *)
(***************************************************************************)
\* bits 0..2: lock tag and bias bit
TagBits(m) == m % 8

\* bits 3..6
AgeBits(m) == (m \div 8) % 16

\* bits 8..9 of a biased header
EpochBits(m) == (m \div 256) % 4

\* bits 10 and up of a biased header, as the pointer they hold
ThreadBits(m) == (m \div 1024) * 1024

\* [JavaThread* | epoch | age | 1 | 01]
BiasedWord(ptr, a, e) == ptr + 256 * e + 8 * a + 5

\* [0 (no hash) | age | 0 | 01]
UnbiasedWord(a) == 8 * a + 1

HasBiasBits(m) == TagBits(m) = 5

IsAnonymous(m) == HasBiasBits(m) /\ ThreadBits(m) = 0

\* BiasedTo(t, e) for the klass's current epoch e
IsBiasedToCurrent(m, t, p) ==
    /\ HasBiasBits(m)
    /\ ThreadBits(m) = 2048 * t
    /\ EpochBits(m) = EpochBits(p)

\* thread t holds the lock of the object
Holds(t) == Depth(t) > 0

\* thread t takes a step out of place p
StepFrom(t, p) == pc[t] = p /\ pc'[t] # p

(***************************************************************************)
(* C1. Mutual exclusion: while the klass's epoch and bias pattern stay     *)
(* unchanged, in every reachable state at most one thread holds the lock   *)
(* of the object, whatever the interleaving of biased fast-path acquire,   *)
(* anonymous-bias compare-and-swap, revocation (handshake or local),       *)
(* lightweight compare-and-swap locking, inflation and unlock.             *)
(***************************************************************************)
C1_MutualExclusion == \A t, u \in Threads : Holds(t) /\ Holds(u) => t = u

\* one thread holds the lock through the monitor while the other is blocked
\* entering it
C1_Witness ==
    \E t, u \in Threads :
        /\ t # u
        /\ Holds(t)
        /\ pc[u] = "mon_enter"
        /\ mon.owner = 2048 * t

(***************************************************************************)
(* C2. Free re-entry: when the header is BiasedTo(t, e) and e is the       *)
(* klass's current epoch, a lock by t is acquired in the fast path's one   *)
(* step with no write to the header and without t leaving for a            *)
(* revocation, a handshake or a compare-and-swap; an unlock by t pops the  *)
(* record and writes nothing either.  So any number of nested lock/unlock  *)
(* pairs leaves the header bit-identical.                                  *)
(***************************************************************************)
C2_FreeReentry ==
    [][\A t \in Threads :
          IsBiasedToCurrent(mark, t, proto) /\ pc[t] = "idle" =>
             /\ LockRead(t) =>
                   /\ mark' = mark
                   /\ Len(stack'[t]) = Depth(t) + 1
                   /\ pc'[t] = "idle"
             /\ Unlock(t) =>
                   /\ mark' = mark
                   /\ Len(stack'[t]) = Depth(t) - 1
                   /\ pc'[t] = "idle"
             /\ LockRead(t) \/ Unlock(t) =>
                   /\ proto' = proto
                   /\ mon' = mon
                   /\ \A u \in Threads : u # t => pc'[u] = pc[u]]_vars

\* t holds the object twice through its bias: the second lock was a re-entry
C2_Witness ==
    \E t \in Threads :
        /\ IsBiasedToCurrent(mark, t, proto)
        /\ Depth(t) = 2
        /\ AgeBits(mark) = 3

(***************************************************************************)
(* C3. Anonymous-bias race: every thread that found the header             *)
(* anonymously biased attempts one compare-and-swap from that header to    *)
(* its own (thread, current epoch) header.  The compare-and-swap succeeds  *)
(* exactly when the header is still the anonymous one: then the header     *)
(* becomes BiasedTo(winner, current epoch) and the winner holds the lock.  *)
(* A header that is not anonymous never becomes anonymous again, so at     *)
(* most one succeeds; a loser writes nothing, does not hold the lock and   *)
(* goes to the slow path.                                                  *)
(***************************************************************************)
C3_AnonymousRace ==
    /\ [](\A t \in Threads : pc[t] = "cas_bias" => IsAnonymous(lmark[t]))
    /\ [](IsAnonymous(mark) => \A t \in Threads : ~Holds(t))
    /\ [][/\ HasBiasBits(mark) /\ IsAnonymous(mark') => IsAnonymous(mark)
          /\ \A t \in Threads :
                StepFrom(t, "cas_bias") =>
                   IF mark = lmark[t] THEN
                      /\ mark' = BiasedWord(2048 * t, AgeBits(mark),
                                            EpochBits(proto))
                      /\ Len(stack'[t]) = Depth(t) + 1
                      /\ pc'[t] = "idle"
                   ELSE
                      /\ mark' = mark
                      /\ stack' = stack
                      /\ pc'[t] = "revoke"]_vars

\* one thread has won the race; the other still is to try its
\* compare-and-swap on the anonymous header it read, and will lose
C3_Witness ==
    \E t, u \in Threads :
        /\ t # u
        /\ pc[u] = "cas_bias"
        /\ IsAnonymous(lmark[u])
        /\ IsBiasedToCurrent(mark, t, proto)
        /\ Holds(t)

\* the address of thread t's i-th lock record, as a header word holds it
RecordWord(t, i) == 64 * t + 8 * i

\* the thread a revocation handshake of requester t is directed at
Target(t) == ThreadBits(lmark[t]) \div 2048

\* nothing of the object, its lock records or its klass is written
NoWrite == mark' = mark /\ stack' = stack /\ mon' = mon /\ proto' = proto

(***************************************************************************)
(* C4. Revocation by another thread: when thread B locks an object that    *)
(* is BiasedTo(A, current epoch), A # B, B writes nothing and requests the *)
(* revocation handshake against A.  If A does not hold the object when     *)
(* the handshake runs, it leaves the header ordinary and unlocked, with    *)
(* the age of the biased header and no identity hash, returns              *)
(* Bias-Revoked, and B goes on to ordinary lightweight locking: it reads   *)
(* the unlocked header and installs its lock record by compare-and-swap,   *)
(* saving the header read in the record.                                   *)
(***************************************************************************)
C4_RevokeByOther ==
    [][\A A, B \in Threads :
          A # B /\ IsBiasedToCurrent(mark, A, proto) =>
             /\ LockRead(B) => pc'[B] = "revoke" /\ NoWrite
             /\ StepFrom(B, "revoke") =>
                   pc'[B] = "hs_wait" /\ lmark'[B] = mark /\ NoWrite
             /\ StepFrom(B, "hs_wait") /\ goal[B] = "lock" /\ ~Holds(A) =>
                   /\ mark' = UnbiasedWord(AgeBits(mark))
                   /\ stack' = stack
                   /\ status'[B] = BIAS_REVOKED
                   /\ pc'[B] = "enter"]_vars
    /\ [][\A B \in Threads :
             /\ StepFrom(B, "enter") /\ TagBits(mark) = 1 =>
                   pc'[B] = "thin_cas" /\ lmark'[B] = mark /\ NoWrite
             /\ StepFrom(B, "thin_cas") /\ mark = lmark[B] =>
                   /\ mark' = RecordWord(B, Depth(B) + 1)
                   /\ stack'[B] = Append(stack[B], mark)
                   /\ pc'[B] = "idle"]_vars

\* B's handshake has revoked the bias of an object that A does not hold and
\* B is about to lock it the ordinary way
C4_Witness ==
    \E A, B \in Threads :
        /\ A # B
        /\ goal[B] = "lock"
        /\ pc[B] = "enter"
        /\ status[B] = BIAS_REVOKED
        /\ mark = UnbiasedWord(3)
        /\ ~Holds(A)

(***************************************************************************)
(* C5. Revocation stack walk: when the revocation of a bias (local, or by  *)
(* handshake) ends Bias-Revoked while the biaser holds the object through  *)
(* n >= 1 lock records, then afterwards the outermost record holds the     *)
(* unbiased unlocked header with the age of the biased header and no       *)
(* hash, each of the other n - 1 records holds zero, and the header no     *)
(* longer has the bias pattern.                                            *)
(***************************************************************************)
C5_StackWalk ==
    [][\A t, b \in Threads :
          /\ StepFrom(t, "revoke") \/ StepFrom(t, "hs_wait")
          /\ status'[t] = BIAS_REVOKED
          /\ HasBiasBits(mark)
          /\ ThreadBits(mark) = 2048 * b
          /\ Holds(b)
          => /\ Len(stack'[b]) = Depth(b)
             /\ stack'[b][1] = UnbiasedWord(AgeBits(mark))
             /\ \A i \in 2 .. Depth(b) : stack'[b][i] = 0
             /\ ~HasBiasBits(mark')]_vars

\* a requester has revoked the bias of an object its biaser holds twice
C5_Witness ==
    \E t, b \in Threads :
        /\ t # b
        /\ status[t] = BIAS_REVOKED
        /\ pc[t] = "idle"
        /\ stack[b] = <<UnbiasedWord(3), 0>>
        /\ mark = RecordWord(b, 1)

\* header and lock records of an object that thread t has locked n times
\* under lightweight locking, starting from the unlocked header of age a
FastHeader(t, a, n) == IF n = 0 THEN UnbiasedWord(a) ELSE RecordWord(t, 1)

FastRecords(a, n) == [i \in 1 .. n |-> IF i = 1 THEN UnbiasedWord(a) ELSE 0]

C7_Idempotence ==
    [][\A t \in Threads :
          /\ StepFrom(t, "revoke") \/ StepFrom(t, "hs_wait")
          /\ ~HasBiasBits(mark)
          => /\ status'[t] = NOT_BIASED
             /\ NoWrite
             /\ pc'[t] = IF goal[t] = "lock" THEN "enter" ELSE "idle"]_vars

\* a revoke has returned Not-Biased on a header whose bias was revoked
C7_Witness ==
    \E t \in Threads :
        /\ status[t] = NOT_BIASED
        /\ pc[t] = "idle"
        /\ mark = UnbiasedWord(3)

(***************************************************************************)
(* C8. Lost races are recoverable, as first stated: whenever the header    *)
(* differs from the one the requester read when its revocation handshake   *)
(* or its revoking compare-and-swap executes, the operation returns        *)
(* Not-Revoked and writes no header and no lock record.                    *)
(***************************************************************************)
C8_LostRaceReturnsNotRevoked ==
    [][\A t \in Threads :
          /\ StepFrom(t, "hs_wait") \/ StepFrom(t, "revoke_cas")
          /\ mark # lmark[t]
          => /\ status'[t] = NOT_REVOKED
             /\ mark' = mark
             /\ stack' = stack]_vars

(***************************************************************************)
(* C8, amended.  A compare-and-swap (revoking, biasing or rebiasing)       *)
(* whose header is no longer the one read writes nothing; the revoking     *)
(* one returns Not-Revoked and reads again, the biasing ones go to the     *)
(* slow path.  A handshake that finds the header no longer biased to the   *)
(* targeted thread under the current epoch writes nothing and returns      *)
(* Not-Biased when the bias pattern is gone (the requester goes on with    *)
(* what it was doing) and Not-Revoked otherwise (the requester reads       *)
(* again).  No such step ends anywhere but in a place the requester        *)
(* continues from.                                                         *)
(***************************************************************************)
C8_LostRace ==
    [][\A t \in Threads :
          /\ StepFrom(t, "revoke_cas") /\ mark # lmark[t] =>
                /\ status'[t] = NOT_REVOKED
                /\ NoWrite
                /\ pc'[t] = "revoke"
          /\ (StepFrom(t, "cas_bias") \/ StepFrom(t, "cas_rebias"))
             /\ mark # lmark[t] =>
                /\ NoWrite
                /\ pc'[t] = "revoke"
          /\ StepFrom(t, "hs_wait")
             /\ ~IsBiasedToCurrent(mark, Target(t), proto) =>
                /\ NoWrite
                /\ IF HasBiasBits(mark)
                   THEN status'[t] = NOT_REVOKED /\ pc'[t] = "revoke"
                   ELSE /\ status'[t] = NOT_BIASED
                        /\ pc'[t] = IF goal[t] = "lock" THEN "enter"
                                    ELSE "idle"]_vars

\* a requester has lost a race, was told Not-Revoked and is to read again
C8_Witness ==
    \E t \in Threads :
        /\ status[t] = NOT_REVOKED
        /\ pc[t] = "revoke"
        /\ mark # 0

(***************************************************************************)
(* C9. Bulk rebias touches no instance: the safepoint operation that       *)
(* increments the klass's epoch (modulo 4) leaves the header and the lock  *)
(* records of the instance bit-identical, and a header that was            *)
(* BiasedTo(A, old epoch) is reported as an epoch mismatch by the next     *)
(* fast-path check of any thread: the check dispatches to the rebiasing    *)
(* compare-and-swap.                                                       *)
(***************************************************************************)
C9_BulkRebiasTouchesNoInstance ==
    /\ [][nbulk' # nbulk =>
             /\ mark' = mark
             /\ stack' = stack
             /\ mon' = mon
             /\ TagBits(proto') = 5
             /\ EpochBits(proto') = (EpochBits(proto) + 1) % 4
             /\ \A A \in Threads :
                   IsBiasedToCurrent(mark, A, proto) =>
                      /\ ~IsBiasedToCurrent(mark', A, proto')
                      /\ \A t \in Threads :
                            FastPath(t, mark', proto') = "cas_rebias"]_vars
    /\ [][\A t \in Threads :
             /\ LockRead(t)
             /\ HasBiasBits(mark)
             /\ EpochBits(mark) # EpochBits(proto)
             => pc'[t] = "cas_rebias" /\ lmark'[t] = mark /\ NoWrite]_vars

\* the epoch has been incremented over a header biased to a thread
C9_Witness ==
    \E A \in Threads :
        /\ nbulk = 1
        /\ mark = BiasedWord(2048 * A, 3, 0)
        /\ EpochBits(proto) = 1
        /\ Holds(A)

\* the header is biased to thread t under an epoch the klass has left
\* behind
StaleTo(t) ==
    /\ HasBiasBits(mark)
    /\ ThreadBits(mark) = 2048 * t
    /\ EpochBits(mark) # EpochBits(proto)

(***************************************************************************)
(* C10, as claimed.  Rebias after an epoch bump: the next lock or unlock   *)
(* of a thread whose bias has become stale renews the bias: the operation  *)
(* installs the thread's bias under the klass's current epoch or goes to   *)
(* the compare-and-swap that does, and that compare-and-swap of a thread   *)
(* that read its own stale bias installs it and ends the operation         *)
(* without any revocation.                                                 *)
(***************************************************************************)
C10_RebiasOnNextLockOrUnlock ==
    /\ [][\A t \in Threads :
             (StaleTo(t) /\ (LockRead(t) \/ Unlock(t))) =>
                 \/ pc'[t] = "cas_rebias"
                 \/ mark' = BiasedWord(2048 * t, AgeBits(mark),
                                       EpochBits(proto))]_vars
    /\ [][\A t \in Threads :
             (StepFrom(t, "cas_rebias") /\ ThreadBits(lmark[t]) = 2048 * t)
                 => /\ mark' = BiasedWord(2048 * t, AgeBits(lmark[t]),
                                          EpochBits(proto))
                    /\ pc'[t] = "idle"]_vars

(***************************************************************************)
(* C10, amended.  Rebias after an epoch bump: a thread whose bias became   *)
(* stale by a bulk rebias is sent by its next lock to one                  *)
(* compare-and-swap.  If the header is still the one read, the             *)
(* compare-and-swap installs the thread's bias under the klass's current   *)
(* epoch with the same age and acquires the lock; if not, it writes        *)
(* nothing and the thread goes to revocation.  An unlock under the stale   *)
(* bias releases the lock record and writes no header.  These steps        *)
(* change neither the klass's epoch nor the safepoint count.  A header     *)
(* becomes stale only by the epoch increment and stays the same word       *)
(* while it is stale, and no thread requests a handshake on a header       *)
(* whose epoch is stale.                                                   *)
(***************************************************************************)
C10_RebiasAfterBump ==
    /\ [][\A t \in Threads :
             /\ (LockRead(t) /\ StaleTo(t)) =>
                   /\ pc'[t] = "cas_rebias"
                   /\ lmark'[t] = mark
                   /\ NoWrite
                   /\ nbulk' = nbulk
             /\ StepFrom(t, "cas_rebias") =>
                   /\ proto' = proto /\ nbulk' = nbulk
                   /\ IF mark = lmark[t] THEN
                         /\ mark' = BiasedWord(2048 * t, AgeBits(mark),
                                               EpochBits(proto))
                         /\ Len(stack'[t]) = Depth(t) + 1
                         /\ pc'[t] = "idle"
                      ELSE
                         /\ mark' = mark
                         /\ stack' = stack
                         /\ pc'[t] = "revoke"
             /\ (Unlock(t) /\ StaleTo(t)) =>
                   /\ mark' = mark /\ proto' = proto /\ nbulk' = nbulk
                   /\ Len(stack'[t]) = Depth(t) - 1
                   /\ pc'[t] = "idle"
             /\ StaleTo(t)' =>
                   (mark' = mark /\ (StaleTo(t) \/ proto' # proto))]_vars
    /\ [][\A t \in Threads :
             pc'[t] = "hs_wait" /\ pc[t] # "hs_wait" =>
                HasBiasBits(mark) /\ EpochBits(mark) = EpochBits(proto)]_vars

\* a thread has renewed its own stale bias by the compare-and-swap and
\* holds the object twice, once from before the epoch increment
C10_Witness ==
    \E t \in Threads :
        /\ nbulk = 1
        /\ pc[t] = "idle"
        /\ Depth(t) = 2
        /\ mark = BiasedWord(2048 * t, 3, 1)
        /\ EpochBits(proto) = 1
        /\ \A u \in Threads \ {t} : Depth(u) = 0 /\ pc[u] = "idle"

(***************************************************************************)
(* Bulk revoke: at a safepoint biasing is disabled for the klass by        *)
(* resetting its prototype header to the unbiased markWord.  Instances     *)
(* are not touched; each loses its bias at the next lock attempt.          *)
(***************************************************************************)
BulkRevoke ==
    /\ \A t \in Threads : Safe(t)
    /\ has_bias_pattern(proto)
    /\ proto' = prototype
    /\ UNCHANGED <<mark, pc, goal, lmark, stack, mon, status, nbulk, aux>>

\* markWord::prototype_for_klass: the header a new instance is given
prototype_for_klass == proto

NextRevoke ==
    \/ \E t \in Threads : ThreadStep(t)
    \/ BulkRebias
    \/ BulkRevoke

SpecRevoke == Init /\ [][NextRevoke]_vars

(***************************************************************************)
(* C11. Bulk revoke disables biasing for the type.  The operation sets     *)
(* the prototype header to the unbiased, unlocked, hashless word and       *)
(* touches no instance; the bias pattern never returns to the prototype,   *)
(* so every instance allocated afterwards is unbiased.  From then on a     *)
(* lock attempt on a biased instance acquires nothing on the fast path     *)
(* and goes to revocation; no step writes a biased header into the         *)
(* object or adds a lock record under a biased header; and the revocation  *)
(* replaces the biased header read, if still installed, by the unbiased    *)
(* header of the same age.                                                 *)
(***************************************************************************)
C11_BulkRevokeDisablesBias ==
    /\ [][/\ proto' # proto /\ nbulk' = nbulk =>
                proto' = UnbiasedWord(0) /\ mark' = mark /\ stack' = stack
          /\ ~HasBiasBits(proto) =>
                /\ ~HasBiasBits(proto')
                /\ ~HasBiasBits(prototype_for_klass')
                /\ HasBiasBits(mark') => mark' = mark
                /\ HasBiasBits(mark) =>
                      \A t \in Threads : Len(stack'[t]) <= Depth(t)]_vars
    /\ [][\A t \in Threads :
             ~HasBiasBits(proto) /\ HasBiasBits(mark) =>
                /\ LockRead(t) => pc'[t] = "revoke" /\ NoWrite
                /\ StepFrom(t, "revoke") =>
                      pc'[t] = "revoke_cas" /\ lmark'[t] = mark /\ NoWrite
                /\ StepFrom(t, "revoke_cas") /\ mark = lmark[t] =>
                      /\ mark' = UnbiasedWord(AgeBits(mark))
                      /\ status'[t] = BIAS_REVOKED]_vars

\* after a bulk revoke a thread that tried to lock the object biased to
\* itself is about to revoke that bias
C11_Witness ==
    \E t \in Threads :
        /\ proto = UnbiasedWord(0)
        /\ goal[t] = "lock"
        /\ pc[t] = "revoke_cas"
        /\ lmark[t] = mark
        /\ mark = BiasedWord(2048 * t, 3, 0)

(***************************************************************************)
(* The identity hash (ObjectSynchronizer::FastHashCode): the bias is       *)
(* revoked first; the hash then goes into the neutral header by            *)
(* compare-and-swap, or into the header the monitor keeps.                 *)
(***************************************************************************)
\* values the hash generator hands out
Hashes == {1, 2}

\* the request: a biased object first has its bias revoked
HashStart(t) ==
    /\ pc[t] = "idle"
    /\ pc' = [pc EXCEPT ![t] =
                 IF has_bias_pattern(mark) THEN "revoke" ELSE "hash_read"]
    /\ goal' = [goal EXCEPT ![t] = "hash"]
    /\ status' = [status EXCEPT ![t] = NO_CONDITION]
    /\ UNCHANGED <<mark, proto, lmark, stack, mon, nbulk, aux>>

\* one round of the loop: read a stable header (not INFLATING) and look for
\* the hash where the header says it is
HashRead(t) ==
    /\ pc[t] = "hash_read"
    /\ ~is_being_inflated(mark)
    /\ LET m == mark
           found == [pc EXCEPT ![t] = "idle"]
       IN
       IF has_bias_pattern(m) THEN
           /\ pc' = [pc EXCEPT ![t] = "revoke"]
           /\ UNCHANGED lmark
       ELSE IF is_neutral(m) THEN
           IF hash(m) # no_hash
           THEN pc' = found /\ UNCHANGED lmark
           ELSE /\ pc' = [pc EXCEPT ![t] = "hash_cas"]
                /\ lmark' = [lmark EXCEPT ![t] = m]
       ELSE IF has_monitor(m) THEN
           /\ pc' = IF hash(mon.header) # no_hash THEN found
                    ELSE [pc EXCEPT ![t] = "hash_mon"]
           /\ UNCHANGED lmark
       ELSE IF /\ is_lock_owned(t, locker(m))
               /\ hash(displaced_mark_helper(m)) # no_hash THEN
           /\ pc' = found
           /\ UNCHANGED lmark
       ELSE
           /\ pc' = [pc EXCEPT ![t] = "inflate"]
           /\ UNCHANGED lmark
    /\ goal' = [goal EXCEPT ![t] = IF pc'[t] = "idle" THEN "none" ELSE @]
    /\ status' = [status EXCEPT ![t] = NO_CONDITION]
    /\ UNCHANGED <<mark, proto, stack, mon, nbulk, aux>>

\* the compare-and-swap of the hashed header over the neutral header read
HashCas(t) ==
    /\ pc[t] = "hash_cas"
    /\ IF mark = lmark[t] THEN
           /\ \E h \in Hashes : mark' = copy_set_hash(lmark[t], h)
           /\ pc' = [pc EXCEPT ![t] = "idle"]
           /\ goal' = [goal EXCEPT ![t] = "none"]
       ELSE
           /\ pc' = [pc EXCEPT ![t] = "inflate"]
           /\ UNCHANGED <<mark, goal>>
    /\ lmark' = [lmark EXCEPT ![t] = 0]
    /\ UNCHANGED <<proto, stack, mon, status, nbulk, aux>>

\* the lock is inflated: the hash goes into the header the monitor keeps,
\* unless it has one
HashMon(t) ==
    /\ pc[t] = "hash_mon"
    /\ IF hash(mon.header) = no_hash
       THEN \E h \in Hashes :
                mon' = [mon EXCEPT !.header = copy_set_hash(@, h)]
       ELSE UNCHANGED mon
    /\ pc' = [pc EXCEPT ![t] = "idle"]
    /\ goal' = [goal EXCEPT ![t] = "none"]
    /\ UNCHANGED <<mark, proto, lmark, stack, status, nbulk, aux>>

HashStep(t) ==
    \/ HashStart(t)
    \/ HashRead(t)
    \/ HashCas(t)
    \/ HashMon(t)

\* the klass's epoch stays as it is; biasing may be disabled
NextHash ==
    \/ \E t \in Threads : StableStep(t)
    \/ \E t \in Threads : HashStep(t)
    \/ BulkRevoke

SpecHash == Init /\ [][NextHash]_vars

\* bits 8 and up of an unbiased unlocked header: the identity hash
HashBits(m) == m \div 256

\* word m is an unlocked unbiased header that carries an identity hash
IsHashed(m) == TagBits(m) = 1 /\ HashBits(m) # 0

(***************************************************************************)
(* C12. No hash while biased.  In every reachable state in which the       *)
(* header has the bias pattern, no header of the object kept elsewhere     *)
(* (in a lock record, in the monitor) carries an identity hash and no      *)
(* thread is at the point of installing one.  A hash request on a biased   *)
(* object writes nothing and goes to revocation; a step that installs a    *)
(* hash finds and leaves the header without the bias pattern and changes   *)
(* only hash bits.  Every step that takes the bias pattern out of the      *)
(* header synthesizes the unlocked header with the biased header's age     *)
(* and hash = none, in the header itself or in the biaser's outermost      *)
(* lock record.                                                            *)
(***************************************************************************)
C12_NoHashWhileBiased ==
    /\ [](HasBiasBits(mark) =>
             /\ HashBits(mon.header) = 0
             /\ \A t \in Threads :
                   /\ pc[t] \notin {"hash_cas", "hash_mon"}
                   /\ \A i \in 1 .. Depth(t) : ~IsHashed(stack[t][i]))
    /\ [][\A t \in Threads :
             /\ HashStart(t) /\ HasBiasBits(mark) =>
                   pc'[t] = "revoke" /\ NoWrite
             /\ StepFrom(t, "hash_cas") \/ StepFrom(t, "hash_mon") =>
                   /\ ~HasBiasBits(mark)
                   /\ mark' % 256 = mark % 256
                   /\ mon'.header % 256 = mon.header % 256
                   /\ stack' = stack]_vars
    /\ [][HasBiasBits(mark) /\ ~HasBiasBits(mark') =>
             \/ mark' = UnbiasedWord(AgeBits(mark))
             \/ \E b \in Threads :
                   /\ mark' = RecordWord(b, 1)
                   /\ stack'[b][1] = UnbiasedWord(AgeBits(mark))]_vars

\* a hash request has revoked the bias of the object and is to go on to
\* install the hash in the unbiased header
C12_Witness ==
    \E t \in Threads :
        /\ goal[t] = "hash"
        /\ pc[t] = "hash_read"
        /\ status[t] = BIAS_REVOKED
        /\ mark = UnbiasedWord(3)

(***************************************************************************)
(* Threads that end, revocation at a safepoint, and fair scheduling.       *)
(***************************************************************************)
\* a JavaThread that holds no lock ends; it cannot take part in a handshake
Exit(t) ==
    /\ pc[t] = "idle"
    /\ Depth(t) = 0
    /\ pc' = [pc EXCEPT ![t] = "exited"]
    /\ UNCHANGED <<mark, proto, goal, lmark, stack, mon, status, nbulk, aux>>

\* BiasedLocking::single_revoke_at_safepoint on behalf of requester t, whose
\* handshake cannot be serviced because the biaser has ended: all other
\* threads are stopped; the lock records of a live biaser are walked
SafepointRevoke(t) ==
    /\ pc[t] = "hs_wait"
    /\ LET target == ThreadOf(biased_locker(lmark[t]))
       IN  target \in Threads /\ pc[target] = "exited"
    /\ \A u \in Threads \ {t} : Safe(u) \/ pc[u] = "exited"
    /\ LET m == mark
           b == ThreadOf(biased_locker(m))
       IN
       IF ~has_bias_pattern(m) THEN
           /\ status' = [status EXCEPT ![t] = NOT_BIASED]
           /\ UNCHANGED <<mark, stack>>
       ELSE IF b \in Threads /\ pc[b] # "exited" THEN
           /\ mark' = WalkedMark(b, m)
           /\ stack' = [stack EXCEPT ![b] = WalkedStack(b, m)]
           /\ status' = [status EXCEPT ![t] = BIAS_REVOKED]
       ELSE
           /\ mark' = unbiased_prototype(m)
           /\ status' = [status EXCEPT ![t] = BIAS_REVOKED]
           /\ UNCHANGED stack
    /\ pc' = [pc EXCEPT ![t] = AfterRevoke(t)]
    /\ goal' = [goal EXCEPT ![t] = IF pc'[t] = "idle" THEN "none" ELSE @]
    /\ lmark' = [lmark EXCEPT ![t] = 0]
    /\ UNCHANGED <<proto, mon, nbulk, aux>>

LiveStep(t) ==
    \/ StableStep(t)
    \/ Exit(t)
    \/ SafepointRevoke(t)

NextLive == \E t \in Threads : LiveStep(t)

\* a thread inside an operation goes on with it
Continue(t) == pc[t] # "idle" /\ StableStep(t)

\* the scheduler is fair to every thread inside an operation; a handshake
\* is executed once its target is at a safe place often enough, and the
\* safepoint is reached once requested
Fairness ==
    \A t \in Threads :
        /\ WF_vars(Continue(t))
        /\ SF_vars(Handshake(t))
        /\ SF_vars(SafepointRevoke(t))

SpecLive == Init /\ [][NextLive]_vars /\ Fairness

\* the places of a thread inside single-object revocation
RevokePlaces == {"revoke", "revoke_cas", "hs_wait"}

(***************************************************************************)
(* C13. Revocation liveness.  Every attempt of a revocation ends with      *)
(* one of the outcomes Not-Biased, Bias-Revoked, Not-Revoked; a thread     *)
(* leaves revocation only after Not-Biased or Bias-Revoked.  A requester   *)
(* whose handshake cannot be serviced because its target has ended         *)
(* completes through the revocation at a safepoint, which leaves the       *)
(* header without the bias pattern.  Under fair scheduling every thread    *)
(* in revocation, waiting for its handshake included, eventually leaves    *)
(* it.                                                                     *)
(***************************************************************************)
C13_RevocationLiveness ==
    /\ [][\A t \in Threads :
             /\ pc[t] \in RevokePlaces /\ pc'[t] \notin RevokePlaces =>
                   status'[t] \in {1, 2}
             /\ StepFrom(t, "revoke_cas") \/ StepFrom(t, "hs_wait") =>
                   status'[t] \in {1, 2, 3}
             /\ StepFrom(t, "hs_wait")
                /\ Target(t) \in Threads
                /\ pc[Target(t)] = "exited" =>
                   /\ status'[t] = IF HasBiasBits(mark) THEN 2 ELSE 1
                   /\ ~HasBiasBits(mark')
                   /\ pc'[t] \notin RevokePlaces]_vars
    /\ \A t \in Threads :
          (pc[t] \in RevokePlaces) ~> (pc[t] \notin RevokePlaces)

\* a requester waits for a handshake with a biaser that has ended
C13_Witness ==
    \E t, b \in Threads :
        /\ pc[t] = "hs_wait"
        /\ pc[b] = "exited"
        /\ Target(t) = b
        /\ mark = lmark[t]
        /\ mark = BiasedWord(2048 * b, 3, 0)

\* places at which a thread is stopped for a handshake or a safepoint
SafePlaces == {"idle", "hs_wait", "mon_enter"}

\* the step is one of thread b itself: nothing of another thread changes
OwnStep(b) ==
    /\ pc[b] \notin {"hs_wait", "exited"}
    /\ \A u \in Threads \ {b} :
          /\ pc'[u] = pc[u]
          /\ stack'[u] = stack[u]
          /\ lmark'[u] = lmark[u]
          /\ status'[u] = status[u]

\* the step is the handshake of requester t, run on b at a safe place
\* while t was blocked
CallbackOn(t, b) ==
    /\ t # b
    /\ pc[t] = "hs_wait"
    /\ Target(t) = b
    /\ pc[b] \in SafePlaces
    /\ pc'[b] = pc[b]

\* the step is the revocation at a safepoint for requester t: the target
\* has ended and every other thread is stopped
AtSafepoint(t) ==
    /\ pc[t] = "hs_wait"
    /\ Target(t) \in Threads
    /\ pc[Target(t)] = "exited"
    /\ \A u \in Threads \ {t} : pc[u] \in SafePlaces \cup {"exited"}

(***************************************************************************)
(* C14. Single writer per stack: whenever a lock record of thread b        *)
(* changes, the step is b's own, or it is the handshake callback of a      *)
(* requester that was blocked, directed at b, with b stopped at a safe     *)
(* place, or it is a revocation at a safepoint with every other thread     *)
(* stopped.  A requester leaves its wait only by such a step.              *)
(***************************************************************************)
C14_SingleWriterPerStack ==
    [][\A b \in Threads :
          /\ stack'[b] # stack[b] =>
                \/ OwnStep(b)
                \/ \E t \in Threads : CallbackOn(t, b) \/ AtSafepoint(t)
          /\ StepFrom(b, "hs_wait") =>
                \/ AtSafepoint(b)
                \/ \E u \in Threads : CallbackOn(b, u)]_vars

\* the handshake of a requester has rewritten the lock record of the biaser
C14_Witness ==
    \E t, b \in Threads :
        /\ t # b
        /\ goal[t] = "lock"
        /\ pc[t] = "enter"
        /\ status[t] = BIAS_REVOKED
        /\ stack[b] = <<UnbiasedWord(0)>>
        /\ mark = RecordWord(b, 1)

(***************************************************************************)
(* C15. Per-type metadata is written only at a safepoint: a step that      *)
(* changes the prototype header (its epoch or its bias pattern) finds      *)
(* every thread stopped at a safe place and moves no thread, no header,    *)
(* no lock record and no monitor; hence no step of a thread (fast path,    *)
(* revocation, handshake callback) changes the prototype header.           *)
(***************************************************************************)
C15_MetadataOnlyAtSafepoint ==
    [][/\ proto' # proto =>
             /\ \A t \in Threads : pc[t] \in SafePlaces
             /\ pc' = pc
             /\ <<mark, stack, mon, lmark, goal, status>>' =
                    <<mark, stack, mon, lmark, goal, status>>
       /\ \A t \in Threads :
             (pc'[t] # pc[t] \/ status'[t] # status[t]
                 \/ stack'[t] # stack[t]) =>
                 /\ EpochBits(proto') = EpochBits(proto)
                 /\ HasBiasBits(proto') = HasBiasBits(proto)]_vars

\* the epoch was bumped and the bias disabled while a requester was
\* blocked in its handshake
C15_Witness ==
    /\ nbulk = 1
    /\ proto = UnbiasedWord(0)
    /\ \E t \in Threads : pc[t] = "hs_wait" /\ HasBiasBits(lmark[t])

\* thread t installs the busy value over a stack-locked header
InstallsBusy(t) ==
    /\ pc[t] = "inflate"
    /\ pc'[t] = "inflating"
    /\ TagBits(mark) = 0
    /\ lmark'[t] = mark

\* places at which a thread waits for a header that is not the busy value
BusyWaitPlaces == {"inflate", "hash_read"}

(***************************************************************************)
(* C16. Busy sentinel is respected: the all-zero header is written only    *)
(* by a thread that is converting a stack lock to a monitor; while the     *)
(* header is zero only that thread changes it, putting the monitor         *)
(* encoding there; a thread in the inflation loop or the hash loop does    *)
(* not move, and no other thread's step pushes a lock record, completes    *)
(* a lock or a hash request, or reports a revoked bias: from outside an    *)
(* operation a thread only enters one of the loops or a revocation that    *)
(* ends with Not-Biased.                                                   *)
(***************************************************************************)
C16_BusySentinelRespected ==
    [][/\ (mark' = 0 /\ mark # 0) => \E t \in Threads : InstallsBusy(t)
       /\ mark = 0 =>
             /\ mark' # mark =>
                   /\ TagBits(mark') = monitor_value
                   /\ \E t \in Threads : StepFrom(t, "inflating")
             /\ \A u \in Threads :
                   /\ pc[u] \in BusyWaitPlaces => pc'[u] = pc[u]
                   /\ pc[u] # "mon_enter" => Len(stack'[u]) <= Depth(u)
                   /\ pc[u] \in {"idle", "enter"} /\ pc'[u] # pc[u] =>
                          pc'[u] \in {"inflate", "hash_read", "revoke"}
                   /\ StepFrom(u, "hash_cas") =>
                          pc'[u] = "inflate"
                   /\ StepFrom(u, "revoke") =>
                          status'[u] = NOT_BIASED]_vars

\* the header is the busy value while another thread waits to install a hash
C16_Witness ==
    \E t, u \in Threads :
        /\ t # u
        /\ mark = 0
        /\ pc[t] = "inflating"
        /\ pc[u] \in BusyWaitPlaces
        /\ goal[u] = "hash"

(***************************************************************************)
(* C17. Busy sentinel is transient: a header that is the all-zero busy     *)
(* value is eventually replaced by a monitor encoding, under fair          *)
(* scheduling of the inflating thread; while the header is zero a thread   *)
(* is inside the conversion, holding the stack-locked header it replaced,  *)
(* and the step by which that thread leaves the conversion puts the        *)
(* monitor encoding into the header.                                       *)
(***************************************************************************)
C17_BusySentinelTransient ==
    /\ [](mark = 0 =>
             \E t \in Threads :
                 /\ pc[t] = "inflating"
                 /\ lmark[t] # 0
                 /\ TagBits(lmark[t]) = 0)
    /\ [][\A t \in Threads :
             StepFrom(t, "inflating") =>
                 /\ mark = 0
                 /\ TagBits(mark') = monitor_value]_vars
    /\ ((mark = 0) ~> (TagBits(mark) = monitor_value))

\* the conversion is over: the monitor is published with the owner and the
\* displaced header taken from the stack lock
C17_Witness ==
    \E t, u \in Threads :
        /\ t # u
        /\ TagBits(mark) = monitor_value
        /\ pc[t] = "mon_enter"
        /\ mon.owner = RecordWord(u, 1)
        /\ mon.header = UnbiasedWord(3)

(***************************************************************************)
(* BasicLock::move_to: a lock record of thread t is relocated to a new     *)
(* slot, dest[t].  A record whose displaced header is neutral has the      *)
(* object's lock inflated first (ObjectSynchronizer::inflate_helper);      *)
(* then the displaced header is copied.                                    *)
(***************************************************************************)
\* the test of BasicLock::move_to: inflate_helper is called for a record
\* with this displaced header
move_to_inflates(displaced_header) == is_neutral(displaced_header)

\* move_to up to the call of inflate_helper; the whole of it when the
\* displaced header is not neutral.  The destination slot holds a stale
\* word until it is written.
MoveTo(t) ==
    /\ pc[t] = "idle"
    /\ Depth(t) > 0
    /\ \E i \in 1 .. Depth(t), g \in StaleStackWords :
          LET displaced_header == stack[t][i] IN
          IF move_to_inflates(displaced_header) THEN
              /\ dest' = [dest EXCEPT ![t] = [src |-> i, dhw |-> g]]
              /\ pc' = [pc EXCEPT ![t] = "inflate"]
              /\ goal' = [goal EXCEPT ![t] = "move"]
          ELSE
              /\ dest' = [dest EXCEPT ![t] =
                             [src |-> i, dhw |-> displaced_header]]
              /\ UNCHANGED <<pc, goal>>
    /\ UNCHANGED <<mark, proto, lmark, stack, mon, status, nbulk, calc>>

\* move_to after inflate_helper: dest->set_displaced_header
MoveCopy(t) ==
    /\ pc[t] = "move_copy"
    /\ dest' = [dest EXCEPT ![t].dhw = stack[t][dest[t].src]]
    /\ pc' = [pc EXCEPT ![t] = "idle"]
    /\ goal' = [goal EXCEPT ![t] = "none"]
    /\ UNCHANGED <<mark, proto, lmark, stack, mon, status, nbulk, calc>>

MoveStep(t) ==
    \/ MoveTo(t)
    \/ MoveCopy(t)

NextMove ==
    \/ \E t \in Threads : StableStep(t)
    \/ \E t \in Threads : MoveStep(t)

SpecMove == Init /\ [][NextMove]_vars

\* thread t starts relocating its record i
MoveStarts(t, i) ==
    /\ pc[t] = "idle"
    /\ i \in 1 .. Depth(t)
    /\ dest'[t].src = i
    /\ \/ dest'[t] # dest[t]
       \/ goal'[t] = "move"

\* a neutral word: lock bits 01, bias bit clear
IsNeutralWord(m) == TagBits(m) = 1

(***************************************************************************)
(* C18. Relocation of a neutral record inflates first: a move_to of a      *)
(* record whose displaced header is neutral goes into inflation and        *)
(* leaves the destination unwritten; the destination is written only       *)
(* once the header references the monitor, also when it did so before      *)
(* the call; the step that ends move_to leaves a header with the monitor   *)
(* tag and a destination equal to the source record, which is unchanged.   *)
(***************************************************************************)
C18_NeutralRelocationInflates ==
    /\ [][\A t \in Threads :
             /\ \A i \in 1 .. MaxDepth :
                   (MoveStarts(t, i) /\ IsNeutralWord(stack[t][i])) =>
                       /\ pc'[t] = "inflate"
                       /\ dest'[t].dhw \in StaleStackWords
                       /\ <<mark, stack, mon>>' = <<mark, stack, mon>>
             /\ goal[t] = "move" /\ pc'[t] # "idle" =>
                   dest'[t] = dest[t]
             /\ goal[t] = "move" /\ pc'[t] = "idle" =>
                   /\ TagBits(mark) = monitor_value
                   /\ mark' = mark
                   /\ TagBits(mark') # 0
                   /\ stack' = stack
                   /\ dest'[t].dhw = stack[t][dest[t].src]
                   /\ IsNeutralWord(dest'[t].dhw)]_vars
    /\ [](\A t \in Threads :
             goal[t] = "move" /\ pc[t] = "move_copy" =>
                 TagBits(mark) = monitor_value)

\* a thin-locked record was relocated: the lock is inflated, with the
\* record's address as the monitor's owner, and the destination holds the
\* neutral displaced header
C18_Witness ==
    \E t \in Threads :
        /\ pc[t] = "idle"
        /\ goal[t] = "none"
        /\ dest[t] = [src |-> 1, dhw |-> UnbiasedWord(3)]
        /\ stack[t] = <<UnbiasedWord(3)>>
        /\ TagBits(mark) = monitor_value
        /\ mon.owner = RecordWord(t, 1)

(***************************************************************************)
(* C19. Relocation of a location-independent record is a plain copy: a     *)
(* move_to of a record whose displaced header is not neutral is over in    *)
(* one step of the thread, without inflation: header, monitor and every    *)
(* lock record stay as they are and the destination holds the same word    *)
(* as the source record.                                                   *)
(***************************************************************************)
C19_PlainCopy ==
    [][\A t \in Threads : \A i \in 1 .. MaxDepth :
          (MoveStarts(t, i) /\ ~IsNeutralWord(stack[t][i])) =>
              /\ pc'[t] = "idle"
              /\ goal'[t] = goal[t]
              /\ <<mark, mon, stack, lmark>>' = <<mark, mon, stack, lmark>>
              /\ dest'[t].dhw = stack[t][i]]_vars

\* the record of a recursive lock, holding 0, was relocated by a plain copy
\* and the header still holds the address of the thread's first record
C19_Witness ==
    \E t \in Threads :
        /\ pc[t] = "idle"
        /\ dest[t] = [src |-> 2, dhw |-> 0]
        /\ stack[t] = <<UnbiasedWord(0), 0>>
        /\ mark = RecordWord(t, 1)

(***************************************************************************)
(* The pointer encodings of markWord, applied to arguments, one            *)
(* application in a behaviour.                                             *)
(***************************************************************************)
from_pointer(ptr) == ptr

\* a clear_lock_bits() that clears the low lock bit alone
clear_lock_bits_LowBit(v) == BitAndNot(v, unlocked_value)

clear_lock_bits(v) == BitAndNot(v, lock_mask_in_place)

set_marked(v) == BitOr(BitAndNot(v, lock_mask_in_place), marked_value)

encode_pointer_as_mark(p) == set_marked(from_pointer(p))

\* NULL is 0
decode_pointer(v, UseBiasedLocking) ==
    IF UseBiasedLocking /\ has_bias_pattern(v) THEN 0
    ELSE clear_lock_bits(v)

\* the largest index of a pointer the functions are applied to
MaxSlot == 40

\* pointers with the low two bits zero: BasicLock*, ObjectMonitor*, oop
WordPointers == {4 * k : k \in 0 .. MaxSlot}

\* JavaThread* that pass the alignment assertion of encode()
ThreadPointers ==
    {tmp \in {128 * k : k \in 0 .. MaxSlot} :
        BitAnd(tmp, BitOr(epoch_mask_in_place,
                          BitOr(age_mask_in_place,
                                biased_lock_mask_in_place))) = 0}

\* encode(BasicLock*) and locker()
ApplyLocker ==
    /\ calc = NoCalc
    /\ \E p \in WordPointers :
          LET v == encode_lock(p) IN
          calc' = [op |-> "locker", arg |-> <<p>>,
                   res |-> <<has_locker(v), locker(v)>>]
    /\ UNCHANGED <<mark, proto, pc, goal, lmark, stack, mon, status, nbulk,
                   dest>>

\* encode(ObjectMonitor*) and monitor()
ApplyMonitor ==
    /\ calc = NoCalc
    /\ \E m \in WordPointers :
          LET v == encode_monitor(m) IN
          calc' = [op |-> "monitor", arg |-> <<m>>,
                   res |-> <<has_monitor(v), monitor(v)>>]
    /\ UNCHANGED <<mark, proto, pc, goal, lmark, stack, mon, status, nbulk,
                   dest>>

\* encode(JavaThread*, age, bias_epoch) and its three readers
ApplyBias ==
    /\ calc = NoCalc
    /\ \E thread \in ThreadPointers, a \in 0 .. max_age,
          e \in 0 .. max_bias_epoch :
          LET v == encode(thread, a, e) IN
          calc' = [op |-> "bias", arg |-> <<thread, a, e>>,
                   res |-> <<has_bias_pattern(v), biased_locker(v),
                             age(v), bias_epoch(v)>>]
    /\ UNCHANGED <<mark, proto, pc, goal, lmark, stack, mon, status, nbulk,
                   dest>>

\* encode_pointer_as_mark and decode_pointer
ApplyPointer ==
    /\ calc = NoCalc
    /\ \E q \in WordPointers, UseBiasedLocking \in BOOLEAN :
          LET v == encode_pointer_as_mark(q) IN
          calc' = [op |-> "pointer", arg |-> <<q>>,
                   res |-> <<is_marked(v),
                             decode_pointer(v, UseBiasedLocking)>>]
    /\ UNCHANGED <<mark, proto, pc, goal, lmark, stack, mon, status, nbulk,
                   dest>>

NextWords ==
    \/ ApplyLocker
    \/ ApplyMonitor
    \/ ApplyBias
    \/ ApplyPointer

SpecWords == Init /\ [][NextWords]_vars

(***************************************************************************)
(* C20. Encode/decode round trip for every state tag: the locker of an     *)
(* encoded lock-record pointer, the monitor of an encoded monitor          *)
(* pointer, and the pointer decoded from encode_pointer_as_mark are the    *)
(* pointer that went in, for pointers with the low two bits zero; an       *)
(* encoded thread pointer, age and epoch has the bias pattern and gives    *)
(* back the thread, the age and the epoch.                                 *)
(***************************************************************************)
C20_RoundTrip ==
    /\ calc.op = "locker" => calc.res = <<TRUE, calc.arg[1]>>
    /\ calc.op = "monitor" => calc.res = <<TRUE, calc.arg[1]>>
    /\ calc.op = "bias" =>
          calc.res = <<TRUE, calc.arg[1], calc.arg[2], calc.arg[3]>>
    /\ calc.op = "pointer" => calc.res = <<TRUE, calc.arg[1]>>

\* a thread pointer with the unused gap bit set went through encode with
\* the largest age and epoch
C20_Witness ==
    /\ calc.op = "bias"
    /\ calc.arg = <<2048 + 128, 15, 3>>
    /\ calc.res[2] = 2048 + 128

(***************************************************************************)
(* The predicates and field operations of markWord, applied to header      *)
(* words, one application in a behaviour.                                  *)
(***************************************************************************)
\* the largest value of the low bits of a header word: lock, biased_lock,
\* age, unused gap, the two lowest hash or epoch bits, and one bit above
MaxLow == 2047

\* settings of the bits above: none, bits of the thread or hash field, and
\* the highest bit of a word of the model
HighParts == {0, 2 ^ 12 + 2 ^ 20, 2 ^ 30}

HeaderWords == {lo + hi : lo \in 0 .. MaxLow, hi \in HighParts}

UnchangedMachine ==
    UNCHANGED <<mark, proto, pc, goal, lmark, stack, mon, status, nbulk, dest>>

\* has_locker, is_locked, has_monitor and is_marked of one word
ApplyTags ==
    /\ calc = NoCalc
    /\ \E h \in HeaderWords :
          calc' = [op |-> "tags", arg |-> <<h>>,
                   res |-> <<has_locker(h), ~is_locked(h), has_monitor(h),
                             is_marked(h)>>]
    /\ UnchangedMachine

\* the outcome of a function in a debug build: the value returned
Returned(x) == [fatal |-> FALSE, value |-> x]

\* the outcome of a function in a debug build: a failed assert
Fatal == [fatal |-> TRUE, value |-> 0]

\* biased_locker() in a debug build, where its assert is compiled in
biased_locker_debug(v) ==
    IF has_bias_pattern(v) THEN Returned(biased_locker(v)) ELSE Fatal

\* has_bias_pattern, is_biased_anonymously and biased_locker of one word
ApplyAnonymous ==
    /\ calc = NoCalc
    /\ \E h \in HeaderWords :
          calc' = [op |-> "anonymous", arg |-> <<h>>,
                   res |-> <<has_bias_pattern(h), is_biased_anonymously(h),
                             biased_locker_debug(h)>>]
    /\ UnchangedMachine

\* bias_epoch() in a debug build
bias_epoch_debug(v) ==
    IF has_bias_pattern(v) THEN Returned(bias_epoch(v)) ELSE Fatal

\* the assert on the argument of set_bias_epoch(int epoch):
\* (epoch & (~epoch_mask)) == 0, the int converted to uintptr_t, which for a
\* negative epoch has every high bit set
epoch_in_range(epoch) == epoch >= 0 /\ BitAndNot(epoch, epoch_mask) = 0

\* set_bias_epoch() in a debug build
set_bias_epoch_debug(v, epoch) ==
    IF has_bias_pattern(v) /\ epoch_in_range(epoch)
    THEN Returned(set_bias_epoch(v, epoch))
    ELSE Fatal

\* locker() in a debug build
locker_debug(v) == IF has_locker(v) THEN Returned(locker(v)) ELSE Fatal

\* monitor() in a debug build
monitor_debug(v) == IF has_monitor(v) THEN Returned(monitor(v)) ELSE Fatal

\* hash() in a debug build: it has no assert
hash_debug(v) == Returned(hash(v))

\* set_age(uint v) in a debug build
set_age_debug(v, a) ==
    IF BitAndNot(a, age_mask) = 0 THEN Returned(set_age(v, a)) ELSE Fatal

\* the three asserts of encode(JavaThread*, uint age, int bias_epoch); the
\* last compares two ints, and a negative bias_epoch passes it
encode_asserts(thread, a, epoch, UseBiasedLocking) ==
    /\ UseBiasedLocking
    /\ BitAnd(thread, BitOr(epoch_mask_in_place,
                            BitOr(age_mask_in_place,
                                  biased_lock_mask_in_place))) = 0
    /\ a <= max_age
    /\ epoch <= max_bias_epoch

\* the decoding functions of one word
ApplyDecode ==
    /\ calc = NoCalc
    /\ \E h \in HeaderWords :
          calc' = [op |-> "decode", arg |-> <<h>>,
                   res |-> <<biased_locker_debug(h), bias_epoch_debug(h),
                             locker_debug(h), monitor_debug(h),
                             hash_debug(h)>>]
    /\ UnchangedMachine

\* arguments for an epoch: two bits, and values below and above
EpochArgs == -1 .. max_bias_epoch + 2

\* arguments for an age: four bits, and values above
AgeArgs == 0 .. max_age + 2

\* set_bias_epoch of one word
ApplySetBiasEpoch ==
    /\ calc = NoCalc
    /\ \E h \in HeaderWords, e \in EpochArgs :
          calc' = [op |-> "set_bias_epoch", arg |-> <<h, e>>,
                   res |-> <<set_bias_epoch_debug(h, e)>>]
    /\ UnchangedMachine

\* set_age of one word
ApplySetAge ==
    /\ calc = NoCalc
    /\ \E h \in HeaderWords, a \in AgeArgs :
          calc' = [op |-> "set_age", arg |-> <<h, a>>,
                   res |-> <<set_age_debug(h, a)>>]
    /\ UnchangedMachine

\* JavaThread* arguments of encode, aligned or not
AnyPointers == {64 * k : k \in 0 .. MaxSlot} \cup {1, 4, 8}

\* a word of the model checker's integers as the set of the positions of
\* its bits that are 1
wide_word(x) == {i \in 0 .. 30 : (x \div (2 ^ i)) % 2 = 1}

\* an int converted to uintptr_t: a negative one is sign-extended
wide_int(x) ==
    IF x >= 0 THEN wide_word(x)
    ELSE (0 .. BitsPerWord - 1) \ wide_word(-x - 1)

\* markWord::encode(JavaThread*, uint age, int bias_epoch) on words of the
\* full width: bias_epoch << epoch_shift is an int and is converted to
\* uintptr_t, age << age_shift is a uint
wide_encode(thread, a, epoch) ==
    wide_word(thread) \cup wide_int(ShiftLeft(epoch, epoch_shift))
        \cup wide_word(ShiftLeft(a, age_shift))
        \cup wide_word(biased_lock_pattern)

\* encode(JavaThread*, age, bias_epoch) in a debug build.  With a negative
\* bias_epoch no assert fails.  The shift of a negative int is undefined
\* in the language; the builds shift its two's complement, and the word
\* returned has every bit from epoch_shift upwards set.  It is wider than
\* the integers of the model checker and is returned as the set of the
\* positions of its bits.
ApplyEncode ==
    /\ calc = NoCalc
    /\ \E thread \in AnyPointers, a \in AgeArgs, e \in EpochArgs,
          UseBiasedLocking \in BOOLEAN :
          \E out \in IF ~encode_asserts(thread, a, e, UseBiasedLocking)
                     THEN {Fatal}
                     ELSE IF e < 0 THEN {Returned(wide_encode(thread, a, e))}
                     ELSE {Returned(encode(thread, a, e))} :
              calc' = [op |-> "encode",
                       arg |-> <<thread, a, e, UseBiasedLocking>>,
                       res |-> <<out>>]
    /\ UnchangedMachine

\* the largest number of successive increments of an age
MaxIncr == 16

\* incr_age applied n times
RECURSIVE incr_age_times(_, _)
incr_age_times(v, n) ==
    IF n = 0 THEN v ELSE incr_age_times(incr_age(v), n - 1)

\* incr_age of one word, once and repeatedly
ApplyIncrAge ==
    /\ calc = NoCalc
    /\ \E h \in HeaderWords, n \in {2, MaxIncr} :
          calc' = [op |-> "incr_age", arg |-> <<h, n>>,
                   res |-> <<incr_age(h), age(incr_age(h)),
                             incr_age_times(h, n)>>]
    /\ UnchangedMachine

\* hash values that fit the hash bits of a word of this model
HashArgs == {0, 1, 2 ^ 22 + 5, 2 ^ 23 - 1}

\* copy_set_hash of one word, and hash of the result
ApplyCopySetHash ==
    /\ calc = NoCalc
    /\ \E h \in HeaderWords, x \in HashArgs :
          LET r == copy_set_hash(h, x) IN
          calc' = [op |-> "copy_set_hash", arg |-> <<h, x>>,
                   res |-> <<r, hash(r), has_no_hash(r)>>]
    /\ UnchangedMachine

(***************************************************************************)
(* The hash operations once more on words of the full width: a word is     *)
(* the set of the positions 0 .. BitsPerWord - 1 of its bits that are 1.   *)
(***************************************************************************)
wide_hash_mask == 0 .. hash_bits - 1

wide_shift_left(w, n) == {i + n : i \in w} \cap (0 .. BitsPerWord - 1)

wide_shift_right(w, n) == {i - n : i \in w} \cap (0 .. BitsPerWord - 1)

\* hash_mask << hash_shift, the bits 8 .. 38
hash_mask_in_place == wide_shift_left(wide_hash_mask, hash_shift)

\* a copy_set_hash() that does not mask the hash
wide_copy_set_hash_Unmasked(v, h) ==
    (v \ hash_mask_in_place) \cup wide_shift_left(h, hash_shift)

\* markWord::copy_set_hash
wide_copy_set_hash(v, h) ==
    (v \ hash_mask_in_place)
        \cup wide_shift_left(h \cap wide_hash_mask, hash_shift)

\* markWord::hash
wide_hash(v) == wide_shift_right(v, hash_shift) \cap wide_hash_mask

\* bit positions from which the words and the hash values are made up
WordPositions == {0, 2, 3, 7, 8, 38, 39, 63}

HashPositions == {0, 22, 30, 31, 32, 63}

\* copy_set_hash of a word of the full width, and hash of the result
ApplyWideCopySetHash ==
    /\ calc = NoCalc
    /\ \E h \in SUBSET WordPositions, x \in SUBSET HashPositions :
          LET r == wide_copy_set_hash(h, x) IN
          calc' = [op |-> "wide_copy_set_hash", arg |-> <<h, x>>,
                   res |-> <<r, wide_hash(r)>>]
    /\ UnchangedMachine

\* an incr_bias_epoch() that does not mask the incremented epoch
incr_bias_epoch_debug_Unmasked(v) ==
    IF bias_epoch_debug(v).fatal THEN Fatal
    ELSE set_bias_epoch_debug(v, 1 + bias_epoch(v))

\* incr_bias_epoch() in a debug build: the asserts of bias_epoch and of
\* set_bias_epoch
incr_bias_epoch_debug(v) ==
    IF bias_epoch_debug(v).fatal THEN Fatal
    ELSE set_bias_epoch_debug(v, BitAnd(1 + bias_epoch(v), epoch_mask))

\* incr_bias_epoch of one word
ApplyIncrBiasEpoch ==
    /\ calc = NoCalc
    /\ \E h \in HeaderWords :
          calc' = [op |-> "incr_bias_epoch", arg |-> <<h>>,
                   res |-> <<incr_bias_epoch_debug(h),
                             IF has_bias_pattern(h)
                             THEN Returned(incr_bias_epoch(h))
                             ELSE Fatal>>]
    /\ UnchangedMachine

\* is_locked, is_unlocked and is_neutral of one word, and the test of
\* BasicLock::move_to on it
ApplyLockState ==
    /\ calc = NoCalc
    /\ \E h \in HeaderWords :
          calc' = [op |-> "lock_state", arg |-> <<h>>,
                   res |-> <<is_locked(h), is_unlocked(h), is_neutral(h),
                             move_to_inflates(h)>>]
    /\ UnchangedMachine

NextFields ==
    \/ ApplyTags
    \/ ApplyAnonymous
    \/ ApplyDecode
    \/ ApplySetBiasEpoch
    \/ ApplySetAge
    \/ ApplyEncode
    \/ ApplyIncrAge
    \/ ApplyCopySetHash
    \/ ApplyWideCopySetHash
    \/ ApplyIncrBiasEpoch
    \/ ApplyLockState

SpecFields == Init /\ [][NextFields]_vars

\* words stored as a displaced header: unlocked headers of the least and
\* the largest age, and the unused mark
DisplacedArgs == {prototype, set_age(prototype, max_age), unused_mark}

\* markWord::set_displaced_mark_helper(m) on the object's header, in a
\* debug build: the assert fails on a header with the low bit set;
\* otherwise m is stored into the lock record or the ObjectMonitor the
\* header points at.  The INFLATING header points at nothing, and the
\* store through the null pointer ends the process.
set_displaced_mark_helper ==
    /\ calc = NoCalc
    /\ \E m \in DisplacedArgs :
          LET ptr == BitAndNot(mark, monitor_value) IN
          IF ~has_displaced_mark_helper(mark) \/ ptr = 0 THEN
              /\ calc' = [op |-> "set_displaced_mark_helper",
                          arg |-> <<mark, m>>, res |-> <<Fatal>>]
              /\ UNCHANGED <<stack, mon>>
          ELSE
              /\ calc' = [op |-> "set_displaced_mark_helper",
                          arg |-> <<mark, m>>, res |-> <<Returned(m)>>]
              /\ IF ptr = ObjectMonitorAddr THEN
                     /\ mon' = [mon EXCEPT !.header = m]
                     /\ UNCHANGED stack
                 ELSE
                     /\ stack' = [stack EXCEPT
                                     ![ptr \div 64][(ptr % 64) \div 8] = m]
                     /\ UNCHANGED mon
    /\ UNCHANGED <<mark, proto, pc, goal, lmark, status, nbulk, dest>>

\* the lock operations, with one store of a displaced header at any
\* moment
NextDisplaced ==
    \/ \E t \in Threads : ThreadStep(t)
    \/ set_displaced_mark_helper

SpecDisplaced == Init /\ [][NextDisplaced]_vars

\* the low two bits of a word
LockBits(m) == m % 4

\* how many of the results of an application are TRUE
TrueCount(res) == Cardinality({i \in DOMAIN res : res[i]})

(***************************************************************************)
(* C21, as claimed.  Exactly one interpretation per word: of has_locker,   *)
(* not is_locked, has_monitor and is_marked exactly one is true of a       *)
(* word, the one the low two bits 00, 01, 10, 11 select.                   *)
(***************************************************************************)
C21_ExactlyOneTagPredicate ==
    calc.op = "tags" =>
        /\ TrueCount(calc.res) = 1
        /\ calc.res[LockBits(calc.arg[1]) + 1]

(***************************************************************************)
(* C21, amended.  has_locker is true of the words with low bits 00, not    *)
(* is_locked of those with 01, is_marked of those with 11; has_monitor     *)
(* tests bit 1 alone and is true of the words with low bits 10 and 11.     *)
(* Exactly one predicate is true of a word unless its low bits are 11;     *)
(* then has_monitor and is_marked both are.                                *)
(***************************************************************************)
C21_TagPredicates ==
    calc.op = "tags" =>
        LET tag == LockBits(calc.arg[1]) IN
        /\ calc.res[1] = (tag = 0)
        /\ calc.res[2] = (tag = 1)
        /\ calc.res[3] = (tag \in {2, 3})
        /\ calc.res[4] = (tag = 3)
        /\ TrueCount(calc.res) = IF tag = 3 THEN 2 ELSE 1

\* the unused mark 3 is both marked and, by has_monitor, a monitor word
C21_Witness ==
    /\ calc.op = "tags"
    /\ calc.arg = <<marked_value>>
    /\ calc.res = <<FALSE, FALSE, TRUE, TRUE>>

\* the bits of a biased header outside lock tag, bias bit, age and epoch:
\* the unused gap bit 7 and the bits 10 and up
PointerBits(m) == ThreadBits(m) + 128 * ((m \div 128) % 2)

(***************************************************************************)
(* C22, as claimed.  Extraction of the thread of an anonymous bias         *)
(* faults: of a word with the bias pattern and no bit set outside lock     *)
(* tag, bias bit, age and epoch, is_biased_anonymously is true, and        *)
(* biased_locker fails its assert.                                         *)
(***************************************************************************)
C22_AnonymousExtractionFaults ==
    (/\ calc.op = "anonymous"
     /\ HasBiasBits(calc.arg[1])
     /\ PointerBits(calc.arg[1]) = 0) =>
        /\ calc.res[2]
        /\ calc.res[3].fatal

(***************************************************************************)
(* C22, amended.  The assert of biased_locker is has_bias_pattern alone:   *)
(* biased_locker fails exactly on the words without the bias pattern.      *)
(* Of a word with the bias pattern it returns the bits outside lock tag,   *)
(* bias bit, age and epoch, the unused gap bit among them; when these are  *)
(* all zero it returns NULL and is_biased_anonymously, which compares      *)
(* that result with NULL, is true; otherwise is_biased_anonymously is      *)
(* false.                                                                  *)
(***************************************************************************)
C22_AnonymousExtraction ==
    calc.op = "anonymous" =>
        LET h == calc.arg[1] IN
        /\ calc.res[1] = HasBiasBits(h)
        /\ calc.res[2] = (HasBiasBits(h) /\ PointerBits(h) = 0)
        /\ calc.res[3] = IF HasBiasBits(h) THEN Returned(PointerBits(h))
                         ELSE Fatal

\* the anonymously biased header of age 3 and epoch 2: is_biased_anonymously
\* is true and biased_locker returns NULL
C22_Witness ==
    /\ calc.op = "anonymous"
    /\ calc.arg = <<BiasedWord(0, 3, 2)>>
    /\ calc.res = <<TRUE, TRUE, Returned(0)>>

\* a thread pointer with a bit set in the lock, bias, age or epoch field
Misaligned(ptr) == ptr % 128 # 0 \/ EpochBits(ptr) # 0

(***************************************************************************)
(* C23, as claimed.  Contract violations are asserted: in a debug build    *)
(* biased_locker, bias_epoch and set_bias_epoch fail on a word without     *)
(* the bias pattern, locker on a word whose low bits are not 00, monitor   *)
(* on a word whose low bits are not 10, hash on a word that is biased or   *)
(* not unlocked; encode fails for a misaligned thread pointer; set_age,    *)
(* set_bias_epoch and encode fail for an age above 15 or an epoch outside  *)
(* 0..3.                                                                   *)
(***************************************************************************)
C23_ContractViolationsAsserted ==
    /\ calc.op = "decode" =>
          LET h == calc.arg[1] IN
          /\ ~HasBiasBits(h) => calc.res[1].fatal /\ calc.res[2].fatal
          /\ LockBits(h) # 0 => calc.res[3].fatal
          /\ LockBits(h) # 2 => calc.res[4].fatal
          /\ TagBits(h) # 1 => calc.res[5].fatal
    /\ (/\ calc.op = "set_bias_epoch"
        /\ (~HasBiasBits(calc.arg[1]) \/ calc.arg[2] \notin 0 .. 3)) =>
          calc.res[1].fatal
    /\ (calc.op = "set_age" /\ calc.arg[2] > 15) => calc.res[1].fatal
    /\ (/\ calc.op = "encode"
        /\ \/ Misaligned(calc.arg[1])
           \/ calc.arg[2] > 15
           \/ calc.arg[3] \notin 0 .. 3) => calc.res[1].fatal

(***************************************************************************)
(* C23, amended.  In a debug build: biased_locker and bias_epoch fail      *)
(* exactly on the words without the bias pattern; set_bias_epoch exactly   *)
(* on those and for an epoch outside 0..3; locker exactly on the words     *)
(* whose low bits are not 00; monitor exactly on the words with bit 1      *)
(* clear, so not on a marked word; hash never fails and returns the bits   *)
(* above bit 7 of any word; set_age fails exactly for an age above 15;     *)
(* encode fails exactly when biased locking is off, the thread pointer     *)
(* is misaligned, the age is above 15 or the epoch is above 3, and not     *)
(* for a negative epoch.                                                   *)
(***************************************************************************)
C23_AssertedContracts ==
    /\ calc.op = "decode" =>
          LET h == calc.arg[1] IN
          /\ calc.res[1].fatal = ~HasBiasBits(h)
          /\ calc.res[2].fatal = ~HasBiasBits(h)
          /\ calc.res[3].fatal = (LockBits(h) # 0)
          /\ calc.res[4].fatal = (LockBits(h) \in {0, 1})
          /\ calc.res[5] = Returned(h \div 256)
    /\ calc.op = "set_bias_epoch" =>
          calc.res[1].fatal =
              (~HasBiasBits(calc.arg[1]) \/ calc.arg[2] \notin 0 .. 3)
    /\ calc.op = "set_age" =>
          calc.res[1].fatal = (calc.arg[2] > 15)
    /\ calc.op = "encode" =>
          calc.res[1].fatal =
              (\/ ~calc.arg[4]
               \/ Misaligned(calc.arg[1])
               \/ calc.arg[2] > 15
               \/ calc.arg[3] > 3)

\* encode was called with an aligned thread pointer and the epoch -1, no
\* assert failed, and the word returned has the pattern, the age and
\* every bit from bit 8 upwards
C23_Witness ==
    /\ calc.op = "encode"
    /\ calc.arg = <<2048, 3, -1, TRUE>>
    /\ calc.res[1] = Returned({0, 2, 3, 4} \cup (8 .. 63))

\* a word without its bits 3..6
OutsideAge(m) == m - 8 * AgeBits(m)

\* the smaller of two numbers
Least(a, b) == IF a < b THEN a ELSE b

(***************************************************************************)
(* C24. Age saturates: incr_age of a word of age below 15 has the age one  *)
(* higher, incr_age of a word of age 15 is the same word; every bit        *)
(* outside the age field is unchanged; after n increments the age is       *)
(* the least of 15 and the old age plus n.                                 *)
(***************************************************************************)
C24_AgeSaturates ==
    calc.op = "incr_age" =>
        LET h == calc.arg[1]
            n == calc.arg[2]
            once == calc.res[1]
            often == calc.res[3]
        IN
        /\ AgeBits(h) < 15 => AgeBits(once) = AgeBits(h) + 1
        /\ AgeBits(h) = 15 => once = h
        /\ calc.res[2] = AgeBits(once)
        /\ OutsideAge(once) = OutsideAge(h)
        /\ AgeBits(often) = Least(15, AgeBits(h) + n)
        /\ OutsideAge(often) = OutsideAge(h)

\* a biased header of age 15 with the gap bit and the highest epoch set is
\* left as it is by incr_age
C24_Witness ==
    /\ calc.op = "incr_age"
    /\ calc.arg = <<BiasedWord(2 ^ 12 + 2 ^ 20, 15, 3) + 128, MaxIncr>>
    /\ calc.res = <<calc.arg[1], 15, calc.arg[1]>>

\* bits 0..7 of a word: lock tag, bias bit, age and the unused gap bit
LowByte(m) == m % 256

\* the positions of the hash field in a word of the full width
HashField == 8 .. 38

(***************************************************************************)
(* C25. Hash install is confined to the hash field: the word               *)
(* copy_set_hash makes of a word and a hash value has the bits of the      *)
(* word outside the hash field (lock tag, bias bit, age, gap bit and the   *)
(* bits above the field), and in the field the hash value cut to the 31    *)
(* bits of the field, which is what hash returns of it.                    *)
(***************************************************************************)
C25_HashInstallConfined ==
    /\ calc.op = "copy_set_hash" =>
          LET h == calc.arg[1]
              x == calc.arg[2]
          IN
          /\ LowByte(calc.res[1]) = LowByte(h)
          /\ calc.res[1] \div 256 = x
          /\ calc.res[2] = x
          /\ calc.res[3] = (x = 0)
    /\ calc.op = "wide_copy_set_hash" =>
          LET h == calc.arg[1]
              x == calc.arg[2]
          IN
          /\ calc.res[1] \ HashField = h \ HashField
          /\ {i - 8 : i \in calc.res[1] \cap HashField} = x \cap (0 .. 30)
          /\ calc.res[2] = x \cap (0 .. 30)

\* a hash value with bits above the field was installed into a word with
\* bits on both sides of the field: the value was cut and the bits kept
C25_Witness ==
    /\ calc.op = "wide_copy_set_hash"
    /\ calc.arg = <<{0, 2, 3, 7, 39, 63}, {0, 30, 31, 63}>>
    /\ calc.res = <<{0, 2, 3, 7, 8, 38, 39, 63}, {0, 30}>>

\* a word without its bits 8..9
OutsideEpoch(m) == m - 256 * EpochBits(m)

(***************************************************************************)
(* C26. Epoch increment wraps: incr_bias_epoch of a word with the bias     *)
(* pattern fails no assert, at epoch 3 neither; the result has the epoch   *)
(* one higher modulo 4 and every other bit (thread, age, bias bit, lock    *)
(* tag) as in the word.                                                    *)
(***************************************************************************)
C26_EpochIncrementWraps ==
    (calc.op = "incr_bias_epoch" /\ HasBiasBits(calc.arg[1])) =>
        LET h == calc.arg[1]
            r == calc.res[1].value
        IN
        /\ ~calc.res[1].fatal
        /\ EpochBits(r) = (EpochBits(h) + 1) % 4
        /\ OutsideEpoch(r) = OutsideEpoch(h)
        /\ calc.res[2] = calc.res[1]

\* the epoch of a biased header went from 3 to 0; thread and age stayed
C26_Witness ==
    /\ calc.op = "incr_bias_epoch"
    /\ calc.arg = <<BiasedWord(2 ^ 12 + 2 ^ 20, 15, 3)>>
    /\ calc.res[1] = Returned(BiasedWord(2 ^ 12 + 2 ^ 20, 15, 0))

(***************************************************************************)
(* C30. Lock-state predicates by low bits: is_locked is true of a word     *)
(* exactly when its low two bits are not 01; is_unlocked and is_neutral    *)
(* are the same predicate, true exactly when its low three bits are 001.   *)
(* So a word with the bias pattern, an anonymously biased one included,    *)
(* is neither locked nor unlocked nor neutral, and the test by which       *)
(* move_to decides to inflate is false of a displaced header with the      *)
(* bias pattern.                                                           *)
(***************************************************************************)
C30_LockStateByLowBits ==
    calc.op = "lock_state" =>
        LET h == calc.arg[1] IN
        /\ calc.res[1] = (LockBits(h) # 1)
        /\ calc.res[2] = (TagBits(h) = 1)
        /\ calc.res[3] = (TagBits(h) = 1)
        /\ calc.res[4] = (TagBits(h) = 1)
        /\ HasBiasBits(h) => calc.res = <<FALSE, FALSE, FALSE, FALSE>>

\* the anonymously biased header of age 0 is neither locked nor unlocked
\* nor neutral, and move_to would not inflate for it
C30_Witness ==
    /\ calc.op = "lock_state"
    /\ calc.arg = <<BiasedWord(0, 0, 0)>>
    /\ calc.res = <<FALSE, FALSE, FALSE, FALSE>>

\* thread a is inside a critical section on the object through a bias to
\* itself whose epoch the klass has left behind: it took the lock before
\* the epoch was incremented and has held it since
HoldsStale(a) ==
    /\ Holds(a)
    /\ HasBiasBits(mark)
    /\ ThreadBits(mark) = 2048 * a
    /\ HasBiasBits(proto)
    /\ EpochBits(mark) # EpochBits(proto)

MaxBumps == 5

\* the bulk rebias, up to MaxBumps times
BulkRebiasRepeated ==
    /\ nbulk < MaxBumps
    /\ \A t \in Threads : Safe(t)
    /\ has_bias_pattern(proto)
    /\ proto' = incr_bias_epoch(proto)
    /\ nbulk' = nbulk + 1
    /\ UNCHANGED <<mark, pc, goal, lmark, stack, mon, status, aux>>

\* the compare-and-swap that biases the anonymous header, before any
\* bulk rebias
CasBiasFirst(t) == nbulk = 0 /\ CasBias(t)

NextEpochs ==
    \/ \E t \in Threads : LockRead(t)
    \/ \E t \in Threads : CasBiasFirst(t)
    \/ \E t \in Threads : Unlock(t)
    \/ BulkRebiasRepeated

SpecEpochs == Init /\ [][NextEpochs]_vars

\* thread t starts a lock operation
LockAttempt(t) ==
    /\ pc[t] = "idle"
    /\ \/ pc'[t] # "idle"
       \/ Len(stack'[t]) > Depth(t)

\* the fast path of thread t reports an epoch mismatch: t goes to the
\* rebias compare-and-swap with the header it read, nothing written
ReportsMismatch(t) ==
    /\ pc'[t] = "cas_rebias"
    /\ lmark'[t] = mark
    /\ NoWrite

\* the header is biased to a thread, under the epoch the klass had before
\* the first bulk rebias
BiasedAtFirst == HasBiasBits(mark) /\ ThreadBits(mark) # 0

(***************************************************************************)
(* C28, as claimed.  Stale biases stay stale across repeated epoch bumps:  *)
(* after k >= 1 bulk rebias operations the fast path of a thread that      *)
(* locks an object biased before them, its header not written since,       *)
(* reports an epoch mismatch; for k = 4 too.                               *)
(***************************************************************************)
C28_StaleBiasStaysStale ==
    [][\A t \in Threads :
          (BiasedAtFirst /\ nbulk >= 1 /\ LockAttempt(t)) =>
              ReportsMismatch(t)]_vars

(***************************************************************************)
(* C28, amended.  After k bulk rebias operations the fast path reports an  *)
(* epoch mismatch for an object biased before them exactly when k is not   *)
(* a multiple of 4.  After 4 operations the two-bit epoch of the klass is  *)
(* the one in the header again and the old bias is valid: the thread it    *)
(* names takes the lock on the fast path, writing no header, and another   *)
(* thread goes to revocation.                                              *)
(***************************************************************************)
C28_StaleUntilEpochWraps ==
    [][\A t \in Threads :
          (BiasedAtFirst /\ LockAttempt(t)) =>
              /\ EpochBits(proto) = nbulk % 4
              /\ EpochBits(mark) = 0
              /\ IF nbulk % 4 # 0 THEN ReportsMismatch(t)
                 ELSE IF ThreadBits(mark) = 2048 * t THEN
                     /\ pc'[t] = "idle"
                     /\ Len(stack'[t]) = Depth(t) + 1
                     /\ mark' = mark
                 ELSE
                     /\ pc'[t] = "revoke"
                     /\ NoWrite]_vars

\* after four bulk rebias operations the thread the old bias names has
\* taken the lock on the fast path
C28_Witness ==
    \E t \in Threads :
        /\ nbulk = 4
        /\ EpochBits(proto) = 0
        /\ mark = BiasedWord(2048 * t, 3, 0)
        /\ Depth(t) = 2
        /\ pc[t] = "idle"

(***************************************************************************)
(* The operations that write the header or re-enable a bias, together:    *)
(* lock and unlock with the rebias compare-and-swap, revocation,           *)
(* inflation, the identity hash, and bulk rebias.                          *)
(***************************************************************************)
NextAll ==
    \/ \E t \in Threads : ThreadStep(t)
    \/ \E t \in Threads : HashStep(t)
    \/ BulkRebias

SpecAll == Init /\ [][NextAll]_vars

(***************************************************************************)
(* C29. Revocation is irreversible per object: no lock, unlock, hash,      *)
(* revoke or bulk-rebias step takes a header without the bias pattern to   *)
(* a header with it.                                                       *)
(***************************************************************************)
C29_RevocationIrreversible ==
    [][~HasBiasBits(mark) => ~HasBiasBits(mark')]_vars

\* the bias was revoked, the object then locked and unlocked and given a
\* hash, and after a bulk rebias a thread locks it again: the header is
\* unbiased and unlocked and carries the hash
C29_Witness ==
    \E t \in Threads :
        /\ nbulk = 1
        /\ HasBiasBits(proto)
        /\ IsHashed(mark)
        /\ pc[t] = "thin_cas"
        /\ lmark[t] = mark

=============================================================================
